---------------------------- MODULE Spec2Model ----------------------------
(***************************************************************************)
(* Model of the request-correlated relay and credential-rotation engine of *)
(* unified-server.js: MessageQueue, ConnectionRegistry, RequestHandler and *)
(* the parts of BrowserManager / the admin endpoints that drive them.      *)
(*                                                                         *)
(* Node.js runs each synchronous stretch of a handler to completion, so an *)
(* action of the model is one such stretch: from the event that resumes a  *)
(* task (a frame, a timer, a settled promise) up to the next await that    *)
(* really suspends.                                                        *)
(***************************************************************************)
EXTENDS Integers, Sequences, FiniteSets, TLC

(* ------------------------------ bounds --------------------------------- *)
MaxRequests == 2
MaxFrames == 3
MaxStreamFrames == 4
MaxConns == 2
MaxRetriesCfg == 2
MaxThreshold == 1
MaxAdminSwitch == 1
MaxKeepAlive == 1

ReqIds == 1..MaxRequests
\* callers of _switchToNextAuth: a request id, or AdminCaller for GET /switch
AdminCaller == MaxRequests + 1
Callers == 1..(MaxRequests + 1)

(* ------------------------------ frames --------------------------------- *)
\* An error message is abstracted to the sequence of status patterns it
\* embeds, left to right: kw is the keyword ("HTTP", "status code" or the
\* JSON key "code"), ws tells whether whitespace separates keyword and
\* digits, num is the three-digit number.
Pat(kw, ws, num) == [kw |-> kw, ws |-> ws, num |-> num]

Frame(rid, et, st, msg, d) ==
  [request_id |-> rid, event_type |-> et, type |-> "", status |-> st,
   message |-> msg, data |-> d]

\* the sentinel _routeMessage enqueues for a stream_close frame
STREAM_END ==
  [request_id |-> 0, event_type |-> "", type |-> "STREAM_END", status |-> 0,
   message |-> <<>>, data |-> ""]

NoFrame ==
  [request_id |-> 0, event_type |-> "none", type |-> "", status |-> 0,
   message |-> <<>>, data |-> ""]

\* the error frames the peer may emit (status, embedded patterns)
ErrorShapes ==
  { <<500, <<>> >>,
    <<500, <<Pat("HTTP", TRUE, 429)>> >>,
    <<500, <<Pat("code", TRUE, 429)>> >> }

PeerFrames(rid) ==
  { Frame(rid, "response_headers", 200, <<>>, ""),
    Frame(rid, "chunk", 0, <<>>, "A"),
    Frame(rid, "stream_close", 0, <<>>, "") }
  \cup { Frame(rid, "error", s[1], s[2], "") : s \in ErrorShapes }

(* ------------------ status-code correction (pure) ---------------------- *)
RECURSIVE FirstMatch(_, _)
\* leftmost pattern of msg the regex accepts (regex: the set of <<kw, ws>>
\* shapes it matches); <<>> when the regex does not match
FirstMatch(msg, regex) ==
  IF msg = <<>> THEN <<>>
  ELSE IF <<Head(msg).kw, Head(msg).ws>> \in regex THEN <<Head(msg)>>
  ELSE FirstMatch(Tail(msg), regex)

\* /(?:HTTP|status code)\s+(\d{3})/
ParseRegex == {"HTTP", "status code"} \X {TRUE}

\* /(?:HTTP|status code)\s*(\d{3})|"code"\s*:\s*(\d{3})/
SwitchRegex == {"HTTP", "status code", "code"} \X BOOLEAN

InErrorRange(s) == s >= 400 /\ s <= 599

CorrectWith(d, regex) ==
  LET m == FirstMatch(d.message, regex) IN
  IF m # <<>> /\ InErrorRange(m[1].num) /\ d.status # m[1].num
  THEN [d EXCEPT !.status = m[1].num]
  ELSE d

parseAndCorrectErrorDetails(d) == CorrectWith(d, ParseRegex)

\* the correction pass at the head of _handleRequestFailureAndSwitch
SwitchCorrectedDetails(d) == CorrectWith(d, SwitchRegex)

(* ------------------------------- state --------------------------------- *)
VARIABLES
  config,            \* failureThreshold, immediateSwitchStatusCodes, maxRetries
  availableIndices,  \* AuthSource.availableIndices (sorted, no duplicates)
  streamingMode,     \* ProxyServerSystem.streamingMode
  browser,           \* BrowserManager.browser # null
  currentAuthIndex,  \* BrowserManager.currentAuthIndex
  pageConn,          \* the connection the running page holds (0: none)
  nextConn,          \* id of the next WebSocket connection
  peer,              \* the page's _processProxyRequest task per request id
  connections,       \* ConnectionRegistry.connections, in insertion order
  messageQueues,     \* keys of ConnectionRegistry.messageQueues
  queue,             \* the MessageQueue object created for each request
  failureCount,      \* RequestHandler.failureCount
  isAuthSwitching,   \* RequestHandler.isAuthSwitching
  req,               \* each processRequest task: position and locals
  res,               \* each request's HTTP response object
  sw,                \* each caller's pending browserManager.switchAccount
  nextReq,           \* next correlation id to allocate
  clients,           \* number of requests the clients have yet to send
  frames,            \* number of frames routed into a mailbox so far
  adminSwitches,     \* number of GET /switch requests served
  relayed,           \* per request: the connections its relay frames went to
  relayModes,        \* per request: the streaming_mode of each relay frame sent
  routed,            \* per request: the frames enqueued into its mailbox
  taken              \* per request: the frames its dequeue calls returned

cfgVars == <<config, availableIndices, streamingMode>>
browserVars == <<browser, currentAuthIndex, pageConn, nextConn>>
registryVars == <<connections, messageQueues, queue>>
authVars == <<failureCount, isAuthSwitching, sw>>
reqVars == <<req, res, nextReq, clients, relayed, relayModes, taken>>
vars == <<config, availableIndices, streamingMode, browser, currentAuthIndex,
          pageConn, nextConn, peer, connections, messageQueues, queue, failureCount,
          isAuthSwitching, req, res, sw, nextReq, clients, frames,
          adminSwitches, relayed, relayModes, routed, taken>>

(* ---------------------------- MessageQueue ----------------------------- *)
\* new MessageQueue()
NewQueue == [messages |-> <<>>, waitingResolvers |-> <<>>, closed |-> FALSE]

\* a settled or pending dequeue promise
Pending == [k |-> "pending", msg |-> NoFrame, err |-> ""]
Resolved(m) == [k |-> "msg", msg |-> m, err |-> ""]
Rejected(e) == [k |-> "err", msg |-> NoFrame, err |-> e]

\* variant: a message with no waiter goes to the front of the backlog
EnqueueFront(q, m) ==
  IF q.closed THEN [q |-> q, woke |-> 0]
  ELSE IF Len(q.waitingResolvers) > 0
  THEN [q |-> [q EXCEPT !.waitingResolvers = Tail(@)],
        woke |-> Head(q.waitingResolvers)]
  ELSE [q |-> [q EXCEPT !.messages = <<m>> \o @], woke |-> 0]

\* MessageQueue.enqueue: q after the call, and the waiter it resolved (0: none)
Enqueue(q, m) ==
  IF q.closed THEN [q |-> q, woke |-> 0]
  ELSE IF Len(q.waitingResolvers) > 0
  THEN [q |-> [q EXCEPT !.waitingResolvers = Tail(@)],
        woke |-> Head(q.waitingResolvers)]
  ELSE [q |-> [q EXCEPT !.messages = Append(@, m)], woke |-> 0]

\* variant: a dequeue takes the newest frame of the backlog
DequeueNewest(q, w) ==
  IF q.closed THEN [q |-> q, p |-> Rejected("Queue is closed")]
  ELSE IF Len(q.messages) > 0
  THEN [q |-> [q EXCEPT !.messages = SubSeq(@, 1, Len(@) - 1)],
        p |-> Resolved(q.messages[Len(q.messages)])]
  ELSE [q |-> [q EXCEPT !.waitingResolvers = Append(@, w)], p |-> Pending]

\* MessageQueue.dequeue called by waiter w: q after the call and the promise
Dequeue(q, w) ==
  IF q.closed THEN [q |-> q, p |-> Rejected("Queue is closed")]
  ELSE IF Len(q.messages) > 0
  THEN [q |-> [q EXCEPT !.messages = Tail(@)], p |-> Resolved(Head(q.messages))]
  ELSE [q |-> [q EXCEPT !.waitingResolvers = Append(@, w)], p |-> Pending]

\* variant: close drops the content but leaves the mailbox open
CloseKeepsOpen(q) == [messages |-> <<>>, waitingResolvers |-> <<>>, closed |-> FALSE]

\* variant: close keeps the backlog
CloseKeepsBacklog(q) == [q EXCEPT !.waitingResolvers = <<>>, !.closed = TRUE]

\* MessageQueue.close
Close(q) == [messages |-> <<>>, waitingResolvers |-> <<>>, closed |-> TRUE]

InSeq(x, sq) == \E i \in 1..Len(sq) : sq[i] = x
Without(sq, x) == SelectSeq(sq, LAMBDA y : y # x)

(* --------------------------- HTTP response ----------------------------- *)
NewRes == [statusCode |-> 200, headersSent |-> FALSE, ended |-> FALSE, out |-> <<>>]

Out(kind, status, info, msg, data) ==
  [kind |-> kind, status |-> status, info |-> info, msg |-> msg, data |-> data]

\* variant: a write goes in front of what was written before
ResWriteFront(rs, o) ==
  IF rs.ended THEN rs
  ELSE [rs EXCEPT !.headersSent = TRUE, !.out = <<o>> \o @]

\* res.write(chunk) under the callers' writableEnded guard
ResWrite(rs, o) ==
  IF rs.ended THEN rs
  ELSE [rs EXCEPT !.headersSent = TRUE, !.out = Append(@, o)]

\* variant: the response is flushed but left open
ResLeftOpen(rs) ==
  IF rs.ended THEN rs ELSE [rs EXCEPT !.headersSent = TRUE]

\* res.end() under the callers' writableEnded guard
ResEnd(rs) ==
  IF rs.ended THEN rs ELSE [rs EXCEPT !.headersSent = TRUE, !.ended = TRUE]

\* variant: the error status is set but nothing is sent
sendErrorStatusOnly(rs, status, info, msg) ==
  IF rs.headersSent THEN rs
  ELSE [rs EXCEPT !.statusCode = IF status = 0 THEN 500 ELSE status]

\* _sendErrorResponse(res, status, message)
sendErrorResponse(rs, status, info, msg) ==
  IF rs.headersSent THEN rs
  ELSE LET st == IF status = 0 THEN 500 ELSE status IN
       [rs EXCEPT !.statusCode = st, !.headersSent = TRUE, !.ended = TRUE,
                  !.out = Append(@, Out("http_error", st, info, msg, ""))]

\* _sendErrorChunkToClient(res, errorMessage)
sendErrorChunkToClient(rs, info, status) ==
  ResWrite(rs, Out("sse_error", status, info, <<>>, ""))

\* _handleRequestError(error, res); no error of the model contains the
\* timeout word that selects 504
handleRequestError(e, rs, mode) ==
  IF rs.headersSent
  THEN ResEnd(IF mode = "fake" THEN sendErrorChunkToClient(rs, e, 0) ELSE rs)
  ELSE sendErrorResponse(rs, 500, e, <<>>)

(* ------------------------- request bookkeeping ------------------------- *)
NewReq ==
  [pc |-> "idle", mode |-> "real", isStream |-> FALSE, attempt |-> 0,
   p |-> Pending, last |-> NoFrame, dataMessage |-> NoFrame,
   keepAlive |-> FALSE, ticks |-> 0, switchFailed |-> FALSE,
   switchSkipped |-> FALSE, peerLost |-> FALSE, switchCalls |-> 0,
   timedOutAt |-> "", proxyRequest |-> [streaming_mode |-> ""]]

\* the request is between its mailbox allocation and its final cleanup
InFlight(r) == req[r].pc \notin {"idle", "done"}

NoSwitch == [phase |-> "none", target |-> 0]

\* the handler was given a response to write in-band notices to
\* (isStreamRequest ? res : null in the synthesized handler, null in the real one)
HasRes(rq) == rq.mode = "fake" /\ rq.isStream

\* variant: the handler returns without clearing its keep-alive interval
FinishedTimerKept(rq) == [rq EXCEPT !.pc = "done", !.p = Pending]

\* the handler has returned: its finally clause has cleared the keep-alive
\* interval
Finished(rq) == [rq EXCEPT !.pc = "done", !.keepAlive = FALSE, !.p = Pending]

\* variant: processRequest ends without its finally clause
CommitReqNoCleanup(r, rq, rs, q) ==
  /\ req' = [req EXCEPT ![r] = rq]
  /\ res' = [res EXCEPT ![r] = rs]
  /\ queue' = [queue EXCEPT ![r] = q]
  /\ UNCHANGED messageQueues

\* ConnectionRegistry.removeMessageQueue, run by processRequest's finally
\* when the task has reached its end
CommitReq(r, rq, rs, q) ==
  /\ req' = [req EXCEPT ![r] = rq]
  /\ res' = [res EXCEPT ![r] = rs]
  /\ IF rq.pc = "done"
     THEN /\ queue' = [queue EXCEPT ![r] = IF r \in messageQueues THEN Close(q) ELSE q]
          /\ messageQueues' = messageQueues \ {r}
     ELSE /\ queue' = [queue EXCEPT ![r] = q]
          /\ UNCHANGED messageQueues

TakenAfter(r, p) ==
  IF p.k = "msg" THEN [taken EXCEPT ![r] = Append(@, p.msg)] ELSE taken

(* --------------------------- error exits ------------------------------- *)
\* variant: an exception only ends the response
FailEndsQuietly(rq, rs, e, stage) == ResEnd(rs)

\* an exception e leaves the handler; stage is "first" (retry loop) or
\* "loop" (chunk loop of the real handler)
Fail(rq, rs, e, stage) ==
  IF rq.mode = "fake"
  THEN \* catch and finally of _handlePseudoStreamResponse
       ResEnd(IF ~rs.headersSent
              THEN handleRequestError(e, rs, streamingMode)
              ELSE sendErrorChunkToClient(rs, e, 0))
  ELSE IF stage = "first"
  THEN \* catch of processRequest
       handleRequestError(e, rs, streamingMode)
  ELSE IF e = "Queue timeout"
  THEN \* catch and finally of the chunk loop
       ResEnd(rs)
  ELSE handleRequestError(e, ResEnd(rs), streamingMode)

\* variant: the terminal failure only ends the response
TerminalFailSilent(rq, rs) == ResEnd(rs)

\* the terminal-failure branch after the retry loop
TerminalFail(rq, rs) ==
  LET finalError == parseAndCorrectErrorDetails(rq.last) IN
  IF rq.mode = "fake"
  THEN ResEnd(IF ~rs.headersSent
              THEN sendErrorResponse(rs, finalError.status, "upstream", finalError.message)
              ELSE sendErrorChunkToClient(rs, "final_failed", finalError.status))
  ELSE sendErrorResponse(rs, finalError.status, "upstream", finalError.message)

\* variant: a failed attempt is always followed by another one
AfterFailureUnbounded(rq, rs) ==
  [rq |-> [rq EXCEPT !.pc = "retry_wait"], rs |-> rs]

\* variant: the retry loop runs one attempt more than maxRetries
AfterFailureExtraAttempt(rq, rs) ==
  LET corrected == parseAndCorrectErrorDetails(rq.last)
      rs1 == IF HasRes(rq)
             THEN sendErrorChunkToClient(rs, "attempt_failed", corrected.status)
             ELSE rs
  IN IF rq.attempt <= config.maxRetries
     THEN [rq |-> [rq EXCEPT !.pc = "retry_wait"], rs |-> rs1]
     ELSE [rq |-> Finished(rq), rs |-> TerminalFail(rq, rs1)]

\* the rest of a failed attempt once _handleRequestFailureAndSwitch returned
AfterFailure(rq, rs) ==
  LET corrected == parseAndCorrectErrorDetails(rq.last)
      rs1 == IF HasRes(rq)
             THEN sendErrorChunkToClient(rs, "attempt_failed", corrected.status)
             ELSE rs
  IN IF rq.attempt < config.maxRetries
     THEN [rq |-> [rq EXCEPT !.pc = "retry_wait"], rs |-> rs1]
     ELSE [rq |-> Finished(rq), rs |-> TerminalFail(rq, rs1)]

(* ------------------------ rotation state machine ----------------------- *)
IndexOf(sq, x) ==
  IF InSeq(x, sq) THEN CHOOSE i \in 1..Len(sq) : sq[i] = x ELSE 0

\* variant: no modular wrap, the last index is followed by itself
NextIndexNoWrap(available, current) ==
  LET i == IndexOf(available, current)
  IN IF Len(available) = 0 THEN 0
     ELSE IF Len(available) = 1 THEN available[1]
     ELSE IF i = 0 THEN available[1]
     ELSE IF i = Len(available) THEN available[i]
     ELSE available[i + 1]

\* _getNextAuthIndex for the list and current index given (0 stands for
\* null; positions count from 1, so (i % n) + 1 is the code's (i + 1) % n)
NextIndexOf(available, current) ==
  LET i == IndexOf(available, current)
  IN IF Len(available) = 0 THEN 0
     ELSE IF Len(available) = 1 THEN available[1]
     ELSE IF i = 0 THEN available[1]
     ELSE available[(i % Len(available)) + 1]

\* _getNextAuthIndex
getNextAuthIndex == NextIndexOf(availableIndices, currentAuthIndex)

\* variant: _switchToNextAuth without its guard
SwitchNeverSkipped == FALSE

\* the guard at the head of _switchToNextAuth
SwitchSkipped == isAuthSwitching

\* variant: the guard is released on the success path only
GuardKeptOnFailure(ok) == ~ok

\* isAuthSwitching as the finally clause of _switchToNextAuth leaves it
GuardAfterSwitch(ok) == FALSE

\* variant: an immediate-switch status goes through the counter like any other
DecideByCounterOnly(m) ==
  LET d == SwitchCorrectedDetails(parseAndCorrectErrorDetails(m))
      counted == config.failureThreshold > 0
      fc == IF counted THEN failureCount + 1 ELSE failureCount
  IN [status |-> d.status, immediate |-> FALSE, fc |-> fc,
      call |-> counted /\ fc >= config.failureThreshold]

\* variant: the counter has to exceed the threshold
DecideAboveThreshold(m) ==
  LET d == SwitchCorrectedDetails(parseAndCorrectErrorDetails(m))
      immediate == d.status \in config.immediateSwitchStatusCodes
      counted == ~immediate /\ config.failureThreshold > 0
      fc == IF counted THEN failureCount + 1 ELSE failureCount
  IN [status |-> d.status, immediate |-> immediate, fc |-> fc,
      call |-> immediate \/ (counted /\ fc > config.failureThreshold)]

\* the decision of _handleRequestFailureAndSwitch for error frame m:
\* the counter after it, and whether _switchToNextAuth is called
Decide(m) ==
  LET d == SwitchCorrectedDetails(parseAndCorrectErrorDetails(m))
      immediate == d.status \in config.immediateSwitchStatusCodes
      counted == ~immediate /\ config.failureThreshold > 0
      fc == IF counted THEN failureCount + 1 ELSE failureCount
  IN [status |-> d.status, immediate |-> immediate, fc |-> fc,
      call |-> immediate \/ (counted /\ fc >= config.failureThreshold)]

\* browserManager.switchAccount(target) begins: closeBrowser awaits
\* browser.close() when a browser runs, else launchBrowser starts at once
StartSwitch(c, target) ==
  [sw EXCEPT ![c] = [phase |-> IF browser THEN "closing" ELSE "launching",
                     target |-> target]]

(* ------------------------------- Init ---------------------------------- *)
\* the credential catalogs and immediate-switch sets the runs start from
IndexLists == { <<1, 2>> }
SwitchCodeSets == { {}, {429} }

\* the configurations _loadConfiguration may produce
Configs ==
  [failureThreshold : 0..MaxThreshold,
   immediateSwitchStatusCodes : SwitchCodeSets,
   maxRetries : 1..MaxRetriesCfg]

\* the servers listen, the browser runs, no peer has connected yet
Listening ==
  /\ browser = TRUE
  /\ pageConn = 0
  /\ nextConn = 1
  /\ peer = [r \in ReqIds |-> "idle"]
  /\ connections = <<>>
  /\ messageQueues = {}
  /\ queue = [r \in ReqIds |-> NewQueue]
  /\ failureCount = 0
  /\ isAuthSwitching = FALSE
  /\ req = [r \in ReqIds |-> NewReq]
  /\ res = [r \in ReqIds |-> NewRes]
  /\ sw = [c \in Callers |-> NoSwitch]
  /\ nextReq = 1
  /\ frames = 0
  /\ adminSwitches = 0
  /\ relayed = [r \in ReqIds |-> <<>>]
  /\ relayModes = [r \in ReqIds |-> <<>>]
  /\ routed = [r \in ReqIds |-> <<>>]
  /\ taken = [r \in ReqIds |-> <<>>]

\* the state once ProxyServerSystem.start() has completed: the browser runs
\* with the first available index, no peer has connected yet
Started ==
  /\ currentAuthIndex = availableIndices[1]
  /\ Listening

\* one client request, any configuration
Init ==
  /\ config \in Configs
  /\ availableIndices \in IndexLists
  /\ streamingMode \in {"real", "fake"}
  /\ clients = 1
  /\ Started

(* ----------------------------- peer events ----------------------------- *)
\* the page's script opens its WebSocket: wsServer 'connection' ->
\* ConnectionRegistry.addConnection
PeerConnect ==
  /\ browser /\ pageConn = 0 /\ nextConn <= MaxConns
  /\ connections' = Append(connections, nextConn)
  /\ pageConn' = nextConn
  /\ nextConn' = nextConn + 1
  /\ UNCHANGED <<cfgVars, browser, currentAuthIndex, peer, messageQueues, queue,
                 authVars, reqVars, frames, adminSwitches, routed>>

\* variant: the close event only drops the connection from the registry
removeConnectionOnly(c) ==
  /\ InSeq(c, connections)
  /\ connections' = Without(connections, c)
  /\ pageConn' = IF pageConn = c THEN 0 ELSE pageConn
  /\ peer' = IF pageConn = c THEN [r \in ReqIds |-> "idle"] ELSE peer
  /\ UNCHANGED <<cfgVars, browser, currentAuthIndex, nextConn, messageQueues, queue,
                 authVars, reqVars, frames, adminSwitches, routed>>

\* variant: the close event closes the mailboxes of the requests whose
\* latest relay frame went to the closing connection, and no others
removeConnectionOwnQueues(c) ==
  LET own == { r \in messageQueues :
                 relayed[r] # <<>> /\ relayed[r][Len(relayed[r])] = c } IN
  /\ InSeq(c, connections)
  /\ connections' = Without(connections, c)
  /\ pageConn' = IF pageConn = c THEN 0 ELSE pageConn
  /\ peer' = IF pageConn = c THEN [r \in ReqIds |-> "idle"] ELSE peer
  /\ queue' = [r \in ReqIds |-> IF r \in own THEN Close(queue[r]) ELSE queue[r]]
  /\ messageQueues' = messageQueues \ own
  /\ req' = [r \in ReqIds |->
               LET lost == req[r].peerLost \/ (pageConn = c /\ InFlight(r)) IN
               IF r \in own /\ InSeq(r, queue[r].waitingResolvers)
               THEN [req[r] EXCEPT !.p = Rejected("Queue closed"), !.peerLost = lost]
               ELSE [req[r] EXCEPT !.peerLost = lost]]
  /\ UNCHANGED <<cfgVars, browser, currentAuthIndex, nextConn, authVars, res,
                 nextReq, clients, relayed, relayModes, taken, frames, adminSwitches, routed>>

\* a registered connection's 'close' event: ConnectionRegistry._removeConnection
\* closes every registered mailbox and clears the map.  peerLost records
\* that the page dropped its connection on its own (no browser close
\* preceded) while the request was in flight.
removeConnection(c) ==
  /\ InSeq(c, connections)
  /\ connections' = Without(connections, c)
  /\ pageConn' = IF pageConn = c THEN 0 ELSE pageConn
  /\ peer' = IF pageConn = c THEN [r \in ReqIds |-> "idle"] ELSE peer
  /\ queue' = [r \in ReqIds |-> IF r \in messageQueues THEN Close(queue[r]) ELSE queue[r]]
  /\ messageQueues' = {}
  /\ req' = [r \in ReqIds |->
               LET lost == req[r].peerLost \/ (pageConn = c /\ InFlight(r)) IN
               IF r \in messageQueues /\ InSeq(r, queue[r].waitingResolvers)
               THEN [req[r] EXCEPT !.p = Rejected("Queue closed"), !.peerLost = lost]
               ELSE [req[r] EXCEPT !.peerLost = lost]]
  /\ UNCHANGED <<cfgVars, browser, currentAuthIndex, nextConn, authVars, res,
                 nextReq, clients, relayed, relayModes, taken, frames, adminSwitches, routed>>

\* ConnectionRegistry._routeMessage: the message enqueued for frame f
\* (NoFrame: unknown event type, nothing enqueued)
routeMessage(f) ==
  IF f.event_type \in {"response_headers", "chunk", "error"} THEN f
  ELSE IF f.event_type = "stream_close" THEN STREAM_END
  ELSE NoFrame

\* variant: the frame's id is ignored and some registered mailbox is taken
QueueIgnoringId(f) ==
  IF messageQueues = {} THEN f.request_id ELSE CHOOSE k \in messageQueues : TRUE

\* the mailbox key _handleIncomingMessage looks the frame up under
QueueFor(f) == f.request_id

\* a frame from the connected page: ConnectionRegistry._handleIncomingMessage
\* (limit bounds the number of frames delivered in a run)
Deliver(f, limit) ==
  LET k == QueueFor(f)
      m == routeMessage(f)
  IN /\ IF k \in messageQueues /\ m # NoFrame
        THEN LET e == Enqueue(queue[k], m) IN
             /\ frames < limit
             /\ frames' = frames + 1
             /\ queue' = [queue EXCEPT ![k] = e.q]
             /\ routed' = IF queue[k].closed THEN routed
                          ELSE [routed EXCEPT ![k] = Append(@, m)]
             /\ req' = IF e.woke # 0
                       THEN [req EXCEPT ![e.woke].p = Resolved(m)]
                       ELSE req
             /\ taken' = IF e.woke # 0
                         THEN [taken EXCEPT ![e.woke] = Append(@, m)]
                         ELSE taken
        ELSE UNCHANGED <<frames, queue, routed, req, taken>>
     /\ UNCHANGED <<cfgVars, browserVars, connections, messageQueues, authVars,
                    res, nextReq, clients, relayed, relayModes, adminSwitches>>

handleIncomingMessage(f) == Deliver(f, MaxFrames)

\* variant: the timer rejects the dequeue but leaves its waiter in the list
DequeueTimerKeepsWaiter(k, w) ==
  /\ InSeq(w, queue[k].waitingResolvers)
  /\ queue' = queue
  /\ req' = [req EXCEPT ![w].p = Rejected("Queue timeout"), ![w].timedOutAt = req[w].pc]

\* the timer of the dequeue that task w has parked on mailbox k fires
DequeueTimer(k, w) ==
  /\ InSeq(w, queue[k].waitingResolvers)
  /\ queue' = [queue EXCEPT ![k].waitingResolvers = Without(@, w)]
  /\ req' = [req EXCEPT ![w].p = Rejected("Queue timeout"), ![w].timedOutAt = req[w].pc]

\* the timer of a parked dequeue fires (a request waits on its own mailbox)
QueueTimeout(r) ==
  /\ DequeueTimer(r, r)
  /\ UNCHANGED <<cfgVars, browserVars, peer, connections, messageQueues, authVars,
                 res, nextReq, clients, relayed, relayModes, taken, frames, adminSwitches, routed>>

(* --------------------------- the page's replies ------------------------ *)
\* the relay frame of request r is sent to connection c: the page that holds
\* c starts _processProxyRequest for it
PeerReceives(r, c) ==
  IF c # 0 /\ c = pageConn THEN [peer EXCEPT ![r] = "exec"] ELSE peer

\* the frames _processProxyRequest may transmit next for request r
ReplyEvents(r) ==
  IF peer[r] = "exec" THEN {"response_headers", "error"}
  ELSE IF peer[r] = "body" THEN {"chunk", "stream_close", "error"}
  ELSE {}

PeerReplies(r) == { f \in PeerFrames(r) : f.event_type \in ReplyEvents(r) }

\* the page transmits frame f of its reply for request r
PeerEmit(r, f) ==
  /\ pageConn # 0
  /\ f \in PeerReplies(r)
  /\ peer' = [peer EXCEPT ![r] = IF f.event_type \in {"response_headers", "chunk"}
                                 THEN "body" ELSE "idle"]
  /\ handleIncomingMessage(f)

\* the frames of a body read in pieces: a second chunk payload
StreamFrames(rid) == PeerFrames(rid) \cup { Frame(rid, "chunk", 0, <<>>, "B") }

\* the page transmits frame f of a reply whose body has distinct pieces
PeerStreams(r, f) ==
  /\ pageConn # 0
  /\ f \in StreamFrames(r) /\ f.event_type \in ReplyEvents(r)
  /\ peer' = [peer EXCEPT ![r] = IF f.event_type \in {"response_headers", "chunk"}
                                 THEN "body" ELSE "idle"]
  /\ Deliver(f, MaxStreamFrames)

(* ---------------------------- processRequest --------------------------- *)
\* _buildProxyRequest: of the relay frame's fields, the streaming mode (the
\* correlation id is the request's)
buildProxyRequest == [streaming_mode |-> streamingMode]

\* variant: the relay frame is built anew for every attempt
RelayFrameRebuilt(rq) == buildProxyRequest

\* the frame _forwardRequest(proxyRequest) sends for the request with locals rq
RelayFrame(rq) == rq.proxyRequest

\* variant: the connection registered last
getLastConnection == IF connections = <<>> THEN 0 ELSE connections[Len(connections)]

\* ConnectionRegistry.getFirstConnection (0: undefined)
getFirstConnection == IF connections = <<>> THEN 0 ELSE Head(connections)

\* the connection _forwardRequest sends the relay frame to
forwardTarget == getFirstConnection

\* variant: a request is taken up only when no other request is in flight
AcceptsWhenIdle ==
  /\ clients > 0 /\ nextReq <= MaxRequests
  /\ \A r \in ReqIds : ~InFlight(r)

\* the route handler calls processRequest for every request a client sends
Accepts == clients > 0 /\ nextReq <= MaxRequests

\* variant: a peer is taken to be connected at all times
AlwaysConnected == TRUE

\* ConnectionRegistry.hasActiveConnections
hasActiveConnections == connections # <<>>

\* a new request arrives: processRequest up to its first await.  isStream
\* tells whether the path carries the stream marker (read by the
\* synthesized handler only).
processRequest(isStream) ==
  LET r == nextReq IN
  /\ Accepts
  /\ clients' = clients - 1
  /\ nextReq' = nextReq + 1
  /\ IF ~hasActiveConnections
     THEN \* no peer: 503, nothing allocated
          /\ req' = [req EXCEPT ![r] = Finished(req[r])]
          /\ res' = [res EXCEPT ![r] = sendErrorResponse(res[r], 503, "no_peer", <<>>)]
          /\ UNCHANGED <<queue, messageQueues, relayed, relayModes, taken, peer>>
     ELSE LET d == Dequeue(NewQueue, r)
              rq == [req[r] EXCEPT !.pc = "await_first", !.mode = streamingMode,
                                   !.isStream = isStream, !.attempt = 1, !.p = d.p,
                                   !.proxyRequest = buildProxyRequest,
                                   !.keepAlive = (streamingMode = "fake" /\ isStream)]
          IN /\ req' = [req EXCEPT ![r] = rq]
             /\ queue' = [queue EXCEPT ![r] = d.q]
             /\ messageQueues' = messageQueues \cup {r}
             /\ relayed' = [relayed EXCEPT ![r] = Append(@, forwardTarget)]
             /\ relayModes' = [relayModes EXCEPT
                                ![r] = Append(@, RelayFrame(rq).streaming_mode)]
             /\ peer' = PeerReceives(r, forwardTarget)
             /\ UNCHANGED <<res, taken>>
  /\ UNCHANGED <<cfgVars, browserVars, connections, authVars, frames,
                 adminSwitches, routed>>

\* the first frame of an attempt was an error in 400-599:
\* _handleRequestFailureAndSwitch up to its await, or through to the retry
\* decision when no rotation is started
FailureStep(r, rq, rs) ==
  \E dec \in {Decide(rq.last)} :
  \E nxt \in {getNextAuthIndex} :
  \E rqc \in {[rq EXCEPT !.switchCalls = IF dec.call THEN @ + 1 ELSE @]} :
  \E rs1 \in {IF dec.call /\ HasRes(rq)
              THEN sendErrorChunkToClient(rs, "switching", dec.status) ELSE rs} :
     /\ failureCount' = dec.fc
     /\ IF dec.call /\ ~SwitchSkipped /\ nxt # 0
        THEN /\ isAuthSwitching' = TRUE
             /\ sw' = StartSwitch(r, nxt)
             /\ CommitReq(r, [rqc EXCEPT !.pc = "await_switch"], rs1, queue[r])
        ELSE \E threw \in {dec.call /\ ~SwitchSkipped} :
             \E rs2 \in {IF dec.call /\ HasRes(rq)
                         THEN sendErrorChunkToClient(rs1,
                                IF threw THEN "switch_failed" ELSE "switched", 0)
                         ELSE rs1} :
             \E x \in {AfterFailure([rqc EXCEPT !.switchFailed = @ \/ threw,
                                                !.switchSkipped = @ \/ (dec.call /\ ~threw)],
                                    rs2)} :
                /\ CommitReq(r, x.rq, x.rs, queue[r])
                /\ UNCHANGED <<isAuthSwitching, sw>>
     /\ UNCHANGED taken

\* variant: a success leaves the counter as it is
CountKeptOnSuccess == failureCount

\* this.failureCount = 0 once the retry loop was left without an error
CountAfterSuccess == 0

\* the first frame of an attempt was anything else
SuccessStep(r, rq, rs) ==
  IF rq.last.event_type = "error"
  THEN /\ CommitReq(r, Finished(rq), TerminalFail(rq, rs), queue[r])
       /\ UNCHANGED <<failureCount, isAuthSwitching, sw, taken>>
  ELSE LET d == Dequeue(queue[r], r)
           st == IF rq.last.status = 0 THEN 200 ELSE rq.last.status
       IN /\ failureCount' = CountAfterSuccess
          /\ IF rq.mode = "fake"
             THEN CommitReq(r, [rq EXCEPT !.pc = "await_data", !.p = d.p], rs, d.q)
             ELSE CommitReq(r, [rq EXCEPT !.pc = "await_chunk", !.p = d.p],
                            [rs EXCEPT !.statusCode = st], d.q)
          /\ taken' = TakenAfter(r, d.p)
          /\ UNCHANGED <<isAuthSwitching, sw>>

\* the await of the attempt's first frame settles
ResumeFirst(r) ==
  /\ req[r].pc = "await_first" /\ req[r].p.k # "pending"
  /\ IF req[r].p.k = "err"
     THEN /\ CommitReq(r, Finished(req[r]), Fail(req[r], res[r], req[r].p.err, "first"),
                       queue[r])
          /\ UNCHANGED <<failureCount, isAuthSwitching, sw, taken>>
     ELSE \E rq \in {[req[r] EXCEPT !.last = req[r].p.msg, !.p = Pending]} :
            IF rq.last.event_type = "error" /\ InErrorRange(rq.last.status)
            THEN FailureStep(r, rq, res[r])
            ELSE SuccessStep(r, rq, res[r])
  /\ UNCHANGED <<cfgVars, browserVars, peer, connections, nextReq, clients, relayed, relayModes, frames,
                 adminSwitches, routed>>

\* the retry delay elapses: the next attempt's _forwardRequest and dequeue
RetryTimer(r) ==
  /\ req[r].pc = "retry_wait"
  /\ LET rq == [req[r] EXCEPT !.attempt = @ + 1] IN
     IF forwardTarget = 0
     THEN /\ CommitReq(r, Finished(rq), Fail(rq, res[r], "NoConnection", "first"), queue[r])
          /\ UNCHANGED <<relayed, relayModes, taken, peer>>
     ELSE LET d == Dequeue(queue[r], r) IN
          /\ relayed' = [relayed EXCEPT ![r] = Append(@, forwardTarget)]
          /\ relayModes' = [relayModes EXCEPT
                             ![r] = Append(@, RelayFrame(rq).streaming_mode)]
          /\ peer' = PeerReceives(r, forwardTarget)
          /\ CommitReq(r, [rq EXCEPT !.pc = "await_first", !.p = d.p], res[r], d.q)
          /\ taken' = TakenAfter(r, d.p)
  /\ UNCHANGED <<cfgVars, browserVars, connections, authVars, nextReq, clients, frames,
                 adminSwitches, routed>>

(* ------------------------- after the first frame ----------------------- *)
\* variant: every payload is taken for a JSON document
JsonAlwaysParses(d) == TRUE

\* of the two payloads the peer sends, "A" parses as JSON and "B" does not
JsonParses(d) == d = "A"

\* real mode: one turn of the chunk loop
ResumeChunk(r) ==
  /\ req[r].pc = "await_chunk" /\ req[r].p.k # "pending"
  /\ LET rq == [req[r] EXCEPT !.p = Pending]
         m == req[r].p.msg
     IN IF req[r].p.k = "err"
        THEN /\ CommitReq(r, Finished(rq), Fail(rq, res[r], req[r].p.err, "loop"), queue[r])
             /\ UNCHANGED taken
        ELSE IF m.type = "STREAM_END"
        THEN /\ CommitReq(r, Finished(rq), ResEnd(res[r]), queue[r])
             /\ UNCHANGED taken
        ELSE LET d == Dequeue(queue[r], r)
                 rs == IF m.data # ""
                       THEN ResWrite(res[r], Out("body", 0, "", <<>>, m.data))
                       ELSE res[r]
             IN /\ CommitReq(r, [rq EXCEPT !.p = d.p], rs, d.q)
                /\ taken' = TakenAfter(r, d.p)
  /\ UNCHANGED <<cfgVars, browserVars, peer, connections, authVars, nextReq, clients, relayed, relayModes,
                 frames, adminSwitches, routed>>

\* variant: an end marker in the place of the data frame completes the
\* reply at once, with no payload
ResumeDataStopsAtEnd(r) ==
  /\ req[r].pc = "await_data" /\ req[r].p.k # "pending"
  /\ LET rq == [req[r] EXCEPT !.p = Pending] IN
     IF req[r].p.k = "err"
     THEN /\ CommitReq(r, Finished(rq), Fail(rq, res[r], req[r].p.err, "first"), queue[r])
          /\ UNCHANGED taken
     ELSE IF req[r].p.msg.type = "STREAM_END"
     THEN /\ CommitReq(r, Finished(rq),
                       ResEnd(ResWrite(res[r], Out("sse_done", 0, "", <<>>, ""))),
                       queue[r])
          /\ UNCHANGED taken
     ELSE LET d == Dequeue(queue[r], r) IN
          /\ CommitReq(r, [rq EXCEPT !.pc = "await_end", !.p = d.p,
                                     !.dataMessage = req[r].p.msg], res[r], d.q)
          /\ taken' = TakenAfter(r, d.p)
  /\ UNCHANGED <<cfgVars, browserVars, peer, connections, authVars, nextReq, clients, relayed, relayModes,
                 frames, adminSwitches, routed>>

\* synthesized mode: the data frame arrives, the end frame is awaited
ResumeData(r) ==
  /\ req[r].pc = "await_data" /\ req[r].p.k # "pending"
  /\ LET rq == [req[r] EXCEPT !.p = Pending] IN
     IF req[r].p.k = "err"
     THEN /\ CommitReq(r, Finished(rq), Fail(rq, res[r], req[r].p.err, "first"), queue[r])
          /\ UNCHANGED taken
     ELSE LET d == Dequeue(queue[r], r) IN
          /\ CommitReq(r, [rq EXCEPT !.pc = "await_end", !.p = d.p,
                                     !.dataMessage = req[r].p.msg], res[r], d.q)
          /\ taken' = TakenAfter(r, d.p)
  /\ UNCHANGED <<cfgVars, browserVars, peer, connections, authVars, nextReq, clients, relayed, relayModes,
                 frames, adminSwitches, routed>>

\* synthesized mode: the end frame arrives, the result is written
ResumeEnd(r) ==
  /\ req[r].pc = "await_end" /\ req[r].p.k # "pending"
  /\ LET rq == [req[r] EXCEPT !.p = Pending]
         data == req[r].dataMessage.data
         rs == res[r]
     IN IF req[r].p.k = "err"
        THEN CommitReq(r, Finished(rq), Fail(rq, rs, req[r].p.err, "first"), queue[r])
        ELSE IF rq.isStream
        THEN LET rs1 == IF data # ""
                        THEN ResWrite(rs, Out("sse_data", 0, "", <<>>, data)) ELSE rs
                 rs2 == ResWrite(rs1, Out("sse_done", 0, "", <<>>, ""))
             IN CommitReq(r, Finished(rq), ResEnd(rs2), queue[r])
        ELSE IF data # "" /\ JsonParses(data)
        THEN CommitReq(r, Finished(rq),
               [rs EXCEPT !.statusCode = 200, !.headersSent = TRUE, !.ended = TRUE,
                          !.out = Append(@, Out("json", 200, "", <<>>, data))],
               queue[r])
        ELSE CommitReq(r, Finished(rq),
               ResEnd(sendErrorResponse(rs, 500,
                        IF data # "" THEN "bad_json" ELSE "no_data", <<>>)),
               queue[r])
  /\ UNCHANGED <<cfgVars, browserVars, peer, connections, authVars, nextReq, clients, relayed, relayModes,
                 taken, frames, adminSwitches, routed>>

\* synthesized mode, stream-marked path: the keep-alive interval fires
KeepAlive(r) ==
  /\ req[r].keepAlive /\ req[r].ticks < MaxKeepAlive
  /\ req' = [req EXCEPT ![r].ticks = @ + 1]
  /\ res' = [res EXCEPT ![r] = ResWrite(@, Out("keepalive", 0, "", <<>>, ""))]
  /\ UNCHANGED <<cfgVars, browserVars, peer, registryVars, authVars, nextReq, clients, relayed, relayModes,
                 taken, frames, adminSwitches, routed>>

(* ------------------------------ rotation ------------------------------- *)
\* closeBrowser of a pending switchAccount completes: the page is gone (its
\* WebSocket's close event follows as removeConnection), launchBrowser starts
SwitchBrowserClosed(c) ==
  /\ sw[c].phase = "closing"
  /\ sw' = [sw EXCEPT ![c].phase = "launching"]
  /\ browser' = FALSE
  /\ pageConn' = 0
  /\ peer' = [r \in ReqIds |-> "idle"]
  /\ UNCHANGED <<cfgVars, currentAuthIndex, nextConn, registryVars, failureCount,
                 isAuthSwitching, reqVars, frames, adminSwitches, routed>>

\* the caller of _switchToNextAuth resumes after the call settled
CallerResumes(c, ok) ==
  IF c \in ReqIds
  THEN LET rq == [req[c] EXCEPT !.switchFailed = @ \/ ~ok]
           rs == IF HasRes(rq)
                 THEN sendErrorChunkToClient(res[c],
                        IF ok THEN "switched" ELSE "switch_failed", 0)
                 ELSE res[c]
           x == AfterFailure(rq, rs)
       IN CommitReq(c, x.rq, x.rs, queue[c])
  ELSE UNCHANGED <<req, res, queue, messageQueues>>

\* variant: a successful launch does not record the index it launched
IndexKeptAfterLaunch(c) == currentAuthIndex

\* currentAuthIndex after launchBrowser(target) returned: the call is
\* cancelled at once when a browser is already running
IndexAfterLaunch(c) == IF browser THEN currentAuthIndex ELSE sw[c].target

\* launchBrowser of a pending switchAccount succeeds; _switchToNextAuth
\* resets the counter and releases the guard
SwitchLaunched(c) ==
  /\ sw[c].phase = "launching"
  /\ sw' = [sw EXCEPT ![c] = NoSwitch]
  /\ browser' = TRUE
  /\ currentAuthIndex' = IndexAfterLaunch(c)
  /\ failureCount' = 0
  /\ isAuthSwitching' = GuardAfterSwitch(TRUE)
  /\ CallerResumes(c, TRUE)
  /\ UNCHANGED <<cfgVars, pageConn, nextConn, peer, connections, nextReq, clients, relayed, relayModes,
                 taken, frames, adminSwitches, routed>>

\* variant: a launch that throws has already recorded the index it tried
SwitchLaunchFailedAdvances(c) ==
  /\ sw[c].phase = "launching"
  /\ sw' = [sw EXCEPT ![c] = NoSwitch]
  /\ isAuthSwitching' = GuardAfterSwitch(FALSE)
  /\ currentAuthIndex' = sw[c].target
  /\ CallerResumes(c, FALSE)
  /\ UNCHANGED <<cfgVars, browser, pageConn, nextConn, peer, connections, failureCount,
                 nextReq, clients, relayed, relayModes, taken, frames, adminSwitches, routed>>

\* launchBrowser of a pending switchAccount throws
SwitchLaunchFailed(c) ==
  /\ sw[c].phase = "launching"
  /\ sw' = [sw EXCEPT ![c] = NoSwitch]
  /\ isAuthSwitching' = GuardAfterSwitch(FALSE)
  /\ CallerResumes(c, FALSE)
  /\ UNCHANGED <<cfgVars, browserVars, peer, connections, failureCount, nextReq, clients,
                 relayed, relayModes, taken, frames, adminSwitches, routed>>

\* GET /switch
AdminSwitch ==
  /\ adminSwitches < MaxAdminSwitch
  /\ sw[AdminCaller].phase = "none"
  /\ adminSwitches' = adminSwitches + 1
  /\ IF isAuthSwitching \/ SwitchSkipped \/ getNextAuthIndex = 0
     THEN UNCHANGED <<isAuthSwitching, sw>>
     ELSE /\ isAuthSwitching' = TRUE
          /\ sw' = StartSwitch(AdminCaller, getNextAuthIndex)
  /\ UNCHANGED <<cfgVars, browserVars, peer, registryVars, failureCount, reqVars,
                 frames, routed>>

\* GET /admin/set-mode?mode=m
SetMode(m) ==
  /\ m \in {"fake", "real"}
  /\ streamingMode' = m
  /\ UNCHANGED <<config, availableIndices, browserVars, peer, registryVars, authVars,
                 reqVars, frames, adminSwitches, routed>>

(* ------------------------------- Next ---------------------------------- *)
Next ==
  \/ PeerConnect
  \/ \E c \in 1..MaxConns : removeConnection(c)
  \/ \E r \in ReqIds : \E f \in PeerFrames(r) : PeerEmit(r, f)
  \/ \E r \in ReqIds : QueueTimeout(r)
  \/ \E b \in BOOLEAN : processRequest(b)
  \/ \E r \in ReqIds : ResumeFirst(r)
  \/ \E r \in ReqIds : RetryTimer(r)
  \/ \E r \in ReqIds : ResumeChunk(r)
  \/ \E r \in ReqIds : ResumeData(r)
  \/ \E r \in ReqIds : ResumeEnd(r)
  \/ \E r \in ReqIds : KeepAlive(r)
  \/ \E c \in Callers : SwitchBrowserClosed(c)
  \/ \E c \in Callers : SwitchLaunched(c)
  \/ \E c \in Callers : SwitchLaunchFailed(c)
  \/ AdminSwitch

Spec == Init /\ [][Next]_vars

\* the awaited calls of a rotation return: browser.close() settles, and
\* launchBrowser resolves or throws
SpecLive ==
  /\ Spec
  /\ WF_vars(\E c \in Callers : SwitchBrowserClosed(c))
  /\ WF_vars(\E c \in Callers : SwitchLaunched(c) \/ SwitchLaunchFailed(c))

(* two client requests that may overlap, under the configurations with     *)
(* both rotation triggers enabled; no admin call, and neither the 300 s    *)
(* mailbox timeout nor the keep-alive interval elapses within the window   *)
PairConfigs ==
  { c \in Configs : c.failureThreshold > 0 /\ c.immediateSwitchStatusCodes # {} }

InitPair ==
  /\ config \in PairConfigs
  /\ availableIndices \in IndexLists
  /\ streamingMode \in {"real", "fake"}
  /\ clients = MaxRequests
  /\ Started

NextPair ==
  \/ PeerConnect
  \/ \E c \in 1..MaxConns : removeConnection(c)
  \/ \E r \in ReqIds : \E f \in PeerFrames(r) : PeerEmit(r, f)
  \/ \E b \in BOOLEAN : processRequest(b)
  \/ \E r \in ReqIds : ResumeFirst(r)
  \/ \E r \in ReqIds : RetryTimer(r)
  \/ \E r \in ReqIds : ResumeChunk(r)
  \/ \E r \in ReqIds : ResumeData(r)
  \/ \E r \in ReqIds : ResumeEnd(r)
  \/ \E c \in ReqIds : SwitchBrowserClosed(c)
  \/ \E c \in ReqIds : SwitchLaunched(c)
  \/ \E c \in ReqIds : SwitchLaunchFailed(c)

SpecPair == InitPair /\ [][NextPair]_vars

(* one client request and the admin call under the configuration with both *)
(* rotation triggers and the full retry budget, in either mode.  The event *)
(* loop runs every task whose promise has settled or whose retry timer has *)
(* expired, and the awaited calls of a rotation return.                    *)
FairConfigs ==
  { c \in Configs : /\ c.failureThreshold = MaxThreshold
                    /\ c.immediateSwitchStatusCodes # {}
                    /\ c.maxRetries = MaxRetriesCfg }

InitFair ==
  /\ config \in FairConfigs
  /\ availableIndices \in IndexLists
  /\ streamingMode \in {"real", "fake"}
  /\ clients = 1
  /\ Started

SpecFair ==
  /\ InitFair /\ [][Next]_vars
  /\ WF_vars(\E c \in Callers : SwitchBrowserClosed(c))
  /\ WF_vars(\E c \in Callers : SwitchLaunched(c) \/ SwitchLaunchFailed(c))
  /\ \A r \in ReqIds :
       WF_vars(ResumeFirst(r) \/ RetryTimer(r) \/ ResumeChunk(r)
                 \/ ResumeData(r) \/ ResumeEnd(r))

\* as SpecFair, and the timer of every parked dequeue fires
SpecTimers ==
  /\ SpecFair
  /\ \A r \in ReqIds : WF_vars(QueueTimeout(r))

(* one client request relayed in real-streaming mode, its reply read in     *)
(* distinct pieces; no retry and no rotation trigger, no admin call        *)
StreamConfigs ==
  { c \in Configs : /\ c.failureThreshold = 0
                    /\ c.immediateSwitchStatusCodes = {}
                    /\ c.maxRetries = 1 }

InitStream ==
  /\ config \in StreamConfigs
  /\ availableIndices \in IndexLists
  /\ streamingMode = "real"
  /\ clients = 1
  /\ Started

NextStream ==
  \/ PeerConnect
  \/ \E c \in 1..MaxConns : removeConnection(c)
  \/ \E r \in ReqIds : \E f \in StreamFrames(r) : PeerStreams(r, f)
  \/ \E r \in ReqIds : QueueTimeout(r)
  \/ \E b \in BOOLEAN : processRequest(b)
  \/ \E r \in ReqIds : ResumeFirst(r)
  \/ \E r \in ReqIds : ResumeChunk(r)

SpecStream == InitStream /\ [][NextStream]_vars

(* one MessageQueue object used by its callers in every order: enqueue of  *)
(* any message, dequeue by either of two tasks, the timer of a parked      *)
(* dequeue, close.  No request is sent; req[w].p is the promise task w got *)
(* from its latest dequeue, routed and taken record what the mailbox       *)
(* accepted and returned.                                                  *)
TestQueue == 1

QueueMessages == { routeMessage(f) : f \in StreamFrames(TestQueue) } \ {NoFrame}

InitQueue ==
  /\ config \in StreamConfigs
  /\ availableIndices \in IndexLists
  /\ streamingMode = "real"
  /\ clients = 0
  /\ Started

\* queue.enqueue(m)
EnqueueCall(m) ==
  LET e == Enqueue(queue[TestQueue], m) IN
  /\ frames < MaxFrames
  /\ frames' = frames + 1
  /\ queue' = [queue EXCEPT ![TestQueue] = e.q]
  /\ routed' = IF queue[TestQueue].closed THEN routed
               ELSE [routed EXCEPT ![TestQueue] = Append(@, m)]
  /\ req' = IF e.woke # 0 THEN [req EXCEPT ![e.woke].p = Resolved(m)] ELSE req
  /\ taken' = IF e.woke # 0 THEN [taken EXCEPT ![TestQueue] = Append(@, m)] ELSE taken
  /\ UNCHANGED <<cfgVars, browserVars, peer, connections, messageQueues, authVars,
                 res, nextReq, clients, relayed, relayModes, adminSwitches>>

\* await queue.dequeue() by task w, which is not parked in an earlier call
DequeueCall(w) ==
  LET d == Dequeue(queue[TestQueue], w) IN
  /\ ~InSeq(w, queue[TestQueue].waitingResolvers)
  /\ queue' = [queue EXCEPT ![TestQueue] = d.q]
  /\ req' = [req EXCEPT ![w].p = d.p]
  /\ taken' = TakenAfter(TestQueue, d.p)
  /\ UNCHANGED <<cfgVars, browserVars, peer, connections, messageQueues, authVars,
                 res, nextReq, clients, relayed, relayModes, frames, adminSwitches, routed>>

\* the timer of task w's parked dequeue fires
TimerCall(w) ==
  /\ DequeueTimer(TestQueue, w)
  /\ UNCHANGED <<cfgVars, browserVars, peer, connections, messageQueues, authVars,
                 res, nextReq, clients, relayed, relayModes, taken, frames, adminSwitches, routed>>

\* queue.close(): every parked waiter is rejected
CloseCall ==
  /\ queue' = [queue EXCEPT ![TestQueue] = Close(@)]
  /\ req' = [w \in ReqIds |->
               IF InSeq(w, queue[TestQueue].waitingResolvers)
               THEN [req[w] EXCEPT !.p = Rejected("Queue closed")]
               ELSE req[w]]
  /\ UNCHANGED <<cfgVars, browserVars, peer, connections, messageQueues, authVars,
                 res, nextReq, clients, relayed, relayModes, taken, frames, adminSwitches, routed>>

NextQueue ==
  \/ \E m \in QueueMessages : EnqueueCall(m)
  \/ \E w \in ReqIds : DequeueCall(w)
  \/ \E w \in ReqIds : TimerCall(w)
  \/ CloseCall

SpecQueue == InitQueue /\ [][NextQueue]_vars

(* the same MessageQueue object with each dequeue call told apart: every   *)
(* call that parks creates its own resolver object and its own timer, and  *)
(* the timer of a call still fires after the call was settled.  Task w     *)
(* makes up to MaxCalls calls, each after the previous one settled;        *)
(* req[w].attempt counts them.                                             *)
MaxCalls == 2

\* the resolver object of the n-th dequeue call of task w, and back
Resolver(w, n) == n * (MaxRequests + 1) + w
TaskOf(x) == x % (MaxRequests + 1)
CallOf(x) == x \div (MaxRequests + 1)

Resolvers == { Resolver(w, n) : w \in ReqIds, n \in 1..MaxCalls }

\* queue.enqueue(m): the oldest resolver is shifted and resolved
ResolverEnqueue(m) ==
  LET e == Enqueue(queue[TestQueue], m) IN
  /\ frames < MaxFrames
  /\ frames' = frames + 1
  /\ queue' = [queue EXCEPT ![TestQueue] = e.q]
  /\ routed' = IF queue[TestQueue].closed THEN routed
               ELSE [routed EXCEPT ![TestQueue] = Append(@, m)]
  /\ req' = IF e.woke # 0 THEN [req EXCEPT ![TaskOf(e.woke)].p = Resolved(m)] ELSE req
  /\ taken' = IF e.woke # 0 THEN [taken EXCEPT ![TestQueue] = Append(@, m)] ELSE taken
  /\ UNCHANGED <<cfgVars, browserVars, peer, connections, messageQueues, authVars,
                 res, nextReq, clients, relayed, relayModes, adminSwitches>>

\* await queue.dequeue() by task w, whose previous call has settled
ResolverDequeue(w) ==
  LET d == Dequeue(queue[TestQueue], Resolver(w, req[w].attempt + 1)) IN
  /\ req[w].attempt < MaxCalls
  /\ req[w].attempt = 0 \/ req[w].p.k # "pending"
  /\ queue' = [queue EXCEPT ![TestQueue] = d.q]
  /\ req' = [req EXCEPT ![w].p = d.p, ![w].attempt = @ + 1]
  /\ taken' = TakenAfter(TestQueue, d.p)
  /\ UNCHANGED <<cfgVars, browserVars, peer, connections, messageQueues, authVars,
                 res, nextReq, clients, relayed, relayModes, frames, adminSwitches, routed>>

\* variant: the timer looks for a parked call of its task, not for its own
\* resolver object
TimerFindsTask(q, x) ==
  IF \E i \in 1..Len(q.waitingResolvers) : TaskOf(q.waitingResolvers[i]) = TaskOf(x)
  THEN CHOOSE i \in 1..Len(q.waitingResolvers) : TaskOf(q.waitingResolvers[i]) = TaskOf(x)
  ELSE 0

\* this.waitingResolvers.indexOf(resolver) in the timer callback, counted
\* from 1 (0: not found)
TimerFinds(q, x) == IndexOf(q.waitingResolvers, x)

\* the timer of the call with resolver x fires: the callback of setTimeout
\* in dequeue (a call that returned at once has set no timer; the step is
\* then the one of a timer that finds nothing)
ResolverTimer(x) ==
  LET q == queue[TestQueue]
      i == TimerFinds(q, x)
  IN /\ CallOf(x) <= req[TaskOf(x)].attempt
     /\ IF i # 0
        THEN /\ queue' = [queue EXCEPT ![TestQueue].waitingResolvers =
                            SubSeq(@, 1, i - 1) \o SubSeq(@, i + 1, Len(@))]
             /\ req' = [req EXCEPT ![TaskOf(x)].p = Rejected("Queue timeout")]
        ELSE UNCHANGED <<queue, req>>
     /\ UNCHANGED <<cfgVars, browserVars, peer, connections, messageQueues, authVars,
                    res, nextReq, clients, relayed, relayModes, taken, frames, adminSwitches, routed>>

\* queue.close(): every parked call is rejected
ResolverClose ==
  /\ queue' = [queue EXCEPT ![TestQueue] = Close(@)]
  /\ req' = [w \in ReqIds |->
               IF \E x \in Resolvers : TaskOf(x) = w /\ InSeq(x, queue[TestQueue].waitingResolvers)
               THEN [req[w] EXCEPT !.p = Rejected("Queue closed")]
               ELSE req[w]]
  /\ UNCHANGED <<cfgVars, browserVars, peer, connections, messageQueues, authVars,
                 res, nextReq, clients, relayed, relayModes, taken, frames, adminSwitches, routed>>

NextCalls ==
  \/ \E m \in QueueMessages : ResolverEnqueue(m)
  \/ \E w \in ReqIds : ResolverDequeue(w)
  \/ \E x \in Resolvers : ResolverTimer(x)
  \/ ResolverClose

SpecCalls == InitQueue /\ [][NextCalls]_vars

(* the real-streaming runs, with any text arriving on a registered         *)
(* connection at any time: text that is not JSON, frames without           *)
(* request_id, frames for ids with or without a mailbox.  A text is the    *)
(* frame it spells and whether JSON.parse accepts it.                      *)
Text(valid, f) == [valid |-> valid, frame |-> f]

InboundTexts ==
  { Text(FALSE, Frame(id, "chunk", 0, <<>>, "A")) : id \in ReqIds }
  \cup { Text(TRUE, Frame(id, "chunk", 0, <<>>, "A")) : id \in {0} \cup ReqIds }

\* variant: the text's fields are used without parsing or checking it
ReceiveUnchecked(d, limit) == Deliver(d.frame, limit)

\* _handleIncomingMessage(messageData): JSON.parse inside try/catch, the
\* request_id test, then the mailbox lookup
Receive(d, limit) ==
  IF d.valid /\ d.frame.request_id # 0
  THEN Deliver(d.frame, limit)
  ELSE UNCHANGED vars

\* the 'message' event of a registered connection
InboundData(d) ==
  /\ connections # <<>>
  /\ Receive(d, MaxStreamFrames)
  /\ UNCHANGED peer

NextStray ==
  \/ NextStream
  \/ \E d \in InboundTexts : InboundData(d)

SpecStray == InitStream /\ [][NextStray]_vars

(* one client request in synthesized mode, on a stream-marked or a plain    *)
(* path, its single-shot reply carrying either payload; no retry and no    *)
(* rotation trigger, no admin call                                         *)
InitSynth ==
  /\ config \in StreamConfigs
  /\ availableIndices \in IndexLists
  /\ streamingMode = "fake"
  /\ clients = 1
  /\ Started

NextSynth ==
  \/ PeerConnect
  \/ \E c \in 1..MaxConns : removeConnection(c)
  \/ \E r \in ReqIds : \E f \in StreamFrames(r) : PeerStreams(r, f)
  \/ \E r \in ReqIds : QueueTimeout(r)
  \/ \E b \in BOOLEAN : processRequest(b)
  \/ \E r \in ReqIds : ResumeFirst(r)
  \/ \E r \in ReqIds : ResumeData(r)
  \/ \E r \in ReqIds : ResumeEnd(r)
  \/ \E r \in ReqIds : KeepAlive(r)

SpecSynth == InitSynth /\ [][NextSynth]_vars

(* the next-index selection over every sorted catalog of indices up to     *)
(* MaxIndex and every current index, 0 (nothing launched yet) included;    *)
(* rotations are started by GET /switch                                    *)
MaxIndex == 3

SortedLists ==
  { sq \in UNION { [1..n -> 1..MaxIndex] : n \in 1..MaxIndex } :
      \A i \in 1..(Len(sq) - 1) : sq[i] < sq[i + 1] }

InitIndex ==
  /\ config \in Configs
  /\ availableIndices \in SortedLists
  /\ streamingMode = "real"
  /\ currentAuthIndex \in 0..MaxIndex
  /\ clients = 0
  /\ Listening

NextIndex ==
  \/ PeerConnect
  \/ \E c \in 1..MaxConns : removeConnection(c)
  \/ SwitchBrowserClosed(AdminCaller)
  \/ SwitchLaunched(AdminCaller)
  \/ SwitchLaunchFailed(AdminCaller)
  \/ AdminSwitch

SpecIndex == InitIndex /\ [][NextIndex]_vars

(* one client request with its full retry budget, under thresholds up to   *)
(* MaxCountThreshold, so that the counter can stay below the threshold     *)
MaxCountThreshold == 2

CountConfigs ==
  [failureThreshold : 0..MaxCountThreshold,
   immediateSwitchStatusCodes : SwitchCodeSets,
   maxRetries : {MaxRetriesCfg}]

InitCount ==
  /\ config \in CountConfigs
  /\ availableIndices \in IndexLists
  /\ streamingMode \in {"real", "fake"}
  /\ clients = 1
  /\ Started

SpecCount == InitCount /\ [][Next]_vars

(* the runs of SpecCount without admin call and keep-alive, with a peer    *)
(* whose error frames may also carry no status (0) or a status below 400,  *)
(* with or without a status pattern in the message                         *)
OddErrorShapes ==
  { <<0, <<>> >>,
    <<200, <<>> >>,
    <<0, <<Pat("HTTP", TRUE, 429)>> >> }

OddErrorFrames(rid) == { Frame(rid, "error", s[1], s[2], "") : s \in OddErrorShapes }

\* the page transmits such an error frame for request r
PeerEmitOdd(r, f) ==
  /\ pageConn # 0
  /\ f \in OddErrorFrames(r) /\ "error" \in ReplyEvents(r)
  /\ peer' = [peer EXCEPT ![r] = "idle"]
  /\ handleIncomingMessage(f)

NextOdd ==
  \/ PeerConnect
  \/ \E c \in 1..MaxConns : removeConnection(c)
  \/ \E r \in ReqIds : \E f \in PeerFrames(r) : PeerEmit(r, f)
  \/ \E r \in ReqIds : \E f \in OddErrorFrames(r) : PeerEmitOdd(r, f)
  \/ \E r \in ReqIds : QueueTimeout(r)
  \/ \E b \in BOOLEAN : processRequest(b)
  \/ \E r \in ReqIds : ResumeFirst(r)
  \/ \E r \in ReqIds : RetryTimer(r)
  \/ \E r \in ReqIds : ResumeChunk(r)
  \/ \E r \in ReqIds : ResumeData(r)
  \/ \E r \in ReqIds : ResumeEnd(r)
  \/ \E c \in ReqIds : SwitchBrowserClosed(c)
  \/ \E c \in ReqIds : SwitchLaunched(c)
  \/ \E c \in ReqIds : SwitchLaunchFailed(c)

SpecOdd == InitCount /\ [][NextOdd]_vars

(* one client request under any configuration, arriving in either mode,    *)
(* while GET /admin/set-mode changes the mode at any time; no GET /switch  *)
NextMode ==
  \/ PeerConnect
  \/ \E c \in 1..MaxConns : removeConnection(c)
  \/ \E r \in ReqIds : \E f \in PeerFrames(r) : PeerEmit(r, f)
  \/ \E r \in ReqIds : QueueTimeout(r)
  \/ \E b \in BOOLEAN : processRequest(b)
  \/ \E r \in ReqIds : ResumeFirst(r)
  \/ \E r \in ReqIds : RetryTimer(r)
  \/ \E r \in ReqIds : ResumeChunk(r)
  \/ \E r \in ReqIds : ResumeData(r)
  \/ \E r \in ReqIds : ResumeEnd(r)
  \/ \E r \in ReqIds : KeepAlive(r)
  \/ \E c \in ReqIds : SwitchBrowserClosed(c)
  \/ \E c \in ReqIds : SwitchLaunched(c)
  \/ \E c \in ReqIds : SwitchLaunchFailed(c)
  \/ \E m \in {"fake", "real"} : SetMode(m)

SpecMode == Init /\ [][NextMode]_vars

(* two client requests in real-streaming mode under the configuration of   *)
(* SpecFair, without admin call: the clients send every request they have, *)
(* the event loop runs every task that can resume, the timers of parked    *)
(* dequeues fire and the awaited calls of a rotation return                *)
InitArrivals ==
  /\ config \in FairConfigs
  /\ availableIndices \in IndexLists
  /\ streamingMode = "real"
  /\ clients = MaxRequests
  /\ Started

NextArrivals ==
  \/ PeerConnect
  \/ \E c \in 1..MaxConns : removeConnection(c)
  \/ \E r \in ReqIds : \E f \in PeerFrames(r) : PeerEmit(r, f)
  \/ \E r \in ReqIds : QueueTimeout(r)
  \/ \E b \in BOOLEAN : processRequest(b)
  \/ \E r \in ReqIds : ResumeFirst(r)
  \/ \E r \in ReqIds : RetryTimer(r)
  \/ \E r \in ReqIds : ResumeChunk(r)
  \/ \E c \in ReqIds : SwitchBrowserClosed(c)
  \/ \E c \in ReqIds : SwitchLaunched(c)
  \/ \E c \in ReqIds : SwitchLaunchFailed(c)

SpecArrivals ==
  /\ InitArrivals /\ [][NextArrivals]_vars
  /\ WF_vars(\E b \in BOOLEAN : processRequest(b))
  /\ WF_vars(\E c \in ReqIds : SwitchBrowserClosed(c))
  /\ WF_vars(\E c \in ReqIds : SwitchLaunched(c) \/ SwitchLaunchFailed(c))
  /\ \A r \in ReqIds :
       /\ WF_vars(ResumeFirst(r) \/ RetryTimer(r) \/ ResumeChunk(r))
       /\ WF_vars(QueueTimeout(r))

(* ======================================================================= *)
(*                              properties                                 *)
(* ======================================================================= *)
\* processRequest allocated a mailbox for r (it then sent the first relay frame)
Allocated(r) == req[r].attempt > 0

PendingSwitches == { c \in Callers : sw[c].phase # "none" }

IsPrefix(a, b) == Len(a) <= Len(b) /\ \A i \in 1..Len(a) : a[i] = b[i]

IsRangeError(m) == m.event_type = "error" /\ InErrorRange(m.status)

\* the guard is set exactly while a switchAccount call is pending
GuardWhilePending == isAuthSwitching <=> PendingSwitches # {}

(* C2: the rotation guard is always released.  isAuthSwitching is true     *)
(* exactly while a switchAccount call is pending, so it is false again     *)
(* whichever way the call that set it ends (success, failure); and when    *)
(* the awaited calls return, a set guard is eventually cleared.            *)
C2_GuardReleased ==
  []GuardWhilePending /\ (isAuthSwitching ~> ~isAuthSwitching)

\* a rotation started by a request has failed and the guard is free again
C2_Witness ==
  \E r \in ReqIds : req[r].switchFailed /\ ~isAuthSwitching /\ PendingSwitches = {}

(* C3: once processRequest has finished for a request it allocated a       *)
(* mailbox for, the registry holds nothing under its id and the mailbox is *)
(* closed: a dequeue on it is rejected with the closed error.              *)
C3_MailboxCleanup ==
  \A r \in ReqIds :
    (req[r].pc = "done" /\ Allocated(r)) =>
      /\ r \notin messageQueues
      /\ queue[r].closed
      /\ Dequeue(queue[r], r).p = Rejected("Queue is closed")

\* a request that went through a retry has finished
C3_Witness ==
  \E r \in ReqIds : req[r].pc = "done" /\ req[r].attempt = 2 /\ queue[r].closed

(* C4 as claimed: every in-flight request has its mailbox registered.      *)
C4_AlwaysRegistered == \A r \in ReqIds : InFlight(r) => r \in messageQueues

(* C4 amended: an in-flight request's mailbox is registered exactly while  *)
(* it is open; it leaves the registry only when its request finishes or    *)
(* when a connection's close event removes every mailbox.                  *)
C4_RegisteredUntilClose ==
  [][ /\ \A r \in ReqIds : InFlight(r)' => ((r \in messageQueues') <=> ~queue'[r].closed)
      /\ \A r \in messageQueues \ messageQueues' :
            req'[r].pc = "done" \/ Len(connections') < Len(connections) ]_vars

\* a request is still in flight after a connection close removed its mailbox
C4_Witness ==
  \E r \in ReqIds : InFlight(r) /\ r \notin messageQueues /\ queue[r].closed

(* C6: what a request has dequeued from its mailbox is always a prefix of   *)
(* the routable frames that arrived for its id, in arrival order and in    *)
(* their internal form (a stream_close frame as STREAM_END); while the     *)
(* mailbox is open the frames not yet dequeued are its backlog, in order.  *)
C6_FifoPrefix ==
  \A r \in ReqIds :
    /\ IsPrefix(taken[r], routed[r])
    /\ ~queue[r].closed => routed[r] = taken[r] \o queue[r].messages

\* headers, a chunk and the end marker were all dequeued in arrival order
C6_Witness ==
  \E r \in ReqIds :
    /\ Len(taken[r]) = 3
    /\ taken[r][1].event_type = "response_headers"
    /\ taken[r][2].event_type = "chunk"
    /\ taken[r][3] = STREAM_END

\* every attempt the configuration allows was answered by an upstream error
AllAttemptsFailed(r) ==
  /\ req[r].pc = "done"
  /\ Len(taken[r]) = config.maxRetries
  /\ \A i \in 1..Len(taken[r]) : IsRangeError(taken[r][i])

FinalStatus(r) == parseAndCorrectErrorDetails(req[r].last).status

OutOfKind(r, kind, info) ==
  { i \in 1..Len(res[r].out) : res[r].out[i].kind = kind /\ res[r].out[i].info = info }

OneHttpError(r) ==
  /\ Len(res[r].out) = 1
  /\ res[r].out[1].kind = "http_error"
  /\ res[r].out[1].info = "upstream"
  /\ res[r].out[1].status = FinalStatus(r)
  /\ res[r].statusCode = FinalStatus(r)
  /\ res[r].ended

(* C7 as claimed: when all maxRetries attempts fail, the peer got exactly  *)
(* maxRetries relay frames and the client exactly one HTTP error response  *)
(* with the corrected status.                                              *)
C7_OneTerminalError ==
  \A r \in ReqIds :
    AllAttemptsFailed(r) => Len(relayed[r]) = config.maxRetries /\ OneHttpError(r)

(* C7 amended: exactly maxRetries relay frames; one HTTP error response    *)
(* with the corrected status, except on the stream-marked path of the      *)
(* synthesized mode, where the response is a 200 event stream ending with  *)
(* exactly one terminal error event that carries the corrected status.     *)
C7_TerminalErrorByMode ==
  \A r \in ReqIds :
    AllAttemptsFailed(r) =>
      /\ Len(relayed[r]) = config.maxRetries
      /\ IF HasRes(req[r])
         THEN /\ res[r].statusCode = 200 /\ res[r].ended
              /\ OutOfKind(r, "sse_error", "final_failed") = {Len(res[r].out)}
              /\ res[r].out[Len(res[r].out)].status = FinalStatus(r)
              /\ OutOfKind(r, "http_error", "upstream") = {}
         ELSE OneHttpError(r)

\* two attempts failed in a row, the last with a status taken from its message
C7_Witness ==
  \E r \in ReqIds :
    /\ AllAttemptsFailed(r) /\ config.maxRetries = 2
    /\ FinalStatus(r) = 429 /\ req[r].last.status = 500

\* the synthesized stream-marked case of the amended statement
C7_WitnessStream ==
  \E r \in ReqIds : AllAttemptsFailed(r) /\ HasRes(req[r]) /\ config.maxRetries = 2

(* C8: every relay frame, of a first attempt or of a retry, goes to the    *)
(* connection the registry exposes at the moment of the send, so after a   *)
(* peer replacement a retry is not sent to the connection of the first     *)
(* attempt once that one is gone.                                          *)
C8_SendToExposedPeer ==
  [][ \A r \in ReqIds :
        Len(relayed'[r]) > Len(relayed[r]) =>
          /\ connections # <<>>
          /\ relayed'[r] = Append(relayed[r], connections[1]) ]_vars

\* a rotation replaced the peer between two attempts of one request
C8_Witness ==
  \E r \in ReqIds :
    /\ relayed[r] = <<1, 2>> /\ req[r].attempt = 2
    /\ connections = <<2>> /\ currentAuthIndex = availableIndices[2]

ProxyErrors == {"NoConnection", "Queue is closed", "Queue closed", "Queue timeout"}

SawProxyError(r) ==
  \E i \in 1..Len(res[r].out) : res[r].out[i].info \in ProxyErrors

SawUpstreamError(r) ==
  \E i \in 1..Len(res[r].out) :
    /\ res[r].out[i].info \in {"upstream", "final_failed"}
    /\ res[r].out[i].status = FinalStatus(r)

(* C9: when the activation called for a failed attempt itself fails (and   *)
(* the page did not drop its connection on its own), the client still ends *)
(* up with the upstream error that triggered it, not with an error of the  *)
(* proxy's own.                                                            *)
C9_TriggerNotMasked ==
  \A r \in ReqIds :
    (req[r].pc = "done" /\ req[r].switchFailed /\ ~req[r].peerLost) =>
      SawUpstreamError(r) /\ ~SawProxyError(r)

\* the number a message carries in one of the three documented patterns
EmbeddedStatus(m) == IF m.message = <<>> THEN 0 ELSE m.message[1].num

(* C10: when an upstream error message carries a status in one of the      *)
(* patterns HTTP NNN, status code NNN, "code": NNN with NNN in 400..599,   *)
(* the status the rotation decision uses and the status of the client's    *)
(* error response are both NNN.                                            *)
C10_SameCorrectedStatus ==
  \A r \in ReqIds :
    (/\ req[r].pc = "done"
     /\ OutOfKind(r, "http_error", "upstream") # {}
     /\ InErrorRange(EmbeddedStatus(req[r].last))) =>
       /\ Decide(req[r].last).status = EmbeddedStatus(req[r].last)
       /\ res[r].statusCode = EmbeddedStatus(req[r].last)

\* request r resumes with an upstream error for which _switchToNextAuth is
\* called while a rotation is in progress
SkippedCall(r) ==
  /\ req[r].pc = "await_first" /\ req[r].p.k = "msg" /\ req'[r].pc # "await_first"
  /\ IsRangeError(req[r].p.msg)
  /\ Decide(req[r].p.msg).call
  /\ isAuthSwitching

C5_NoCrossTalk ==
  [][ \A b \in ReqIds :
        routed'[b] # routed[b] =>
          LET m == routed'[b][Len(routed'[b])] IN
          /\ routed'[b] = Append(routed[b], m)
          /\ \/ m.request_id = b
             \/ m = STREAM_END /\ peer[b] = "body" /\ peer'[b] = "idle"
          /\ \A a \in ReqIds \ {b} :
               routed'[a] = routed[a] /\ queue'[a] = queue[a] /\ req'[a] = req[a] ]_vars

\* both requests are in flight at once and each has been delivered a frame
C5_Witness ==
  /\ \A r \in ReqIds : InFlight(r) /\ Len(taken[r]) >= 1
  /\ \E r \in ReqIds : Len(routed[r]) >= 2

\* request r resumes with an upstream error as the first frame of an attempt
FailedAttempt(r) ==
  /\ req[r].pc = "await_first" /\ req[r].p.k = "msg" /\ req'[r].pc # "await_first"
  /\ IsRangeError(req[r].p.msg)

\* the status _handleRequestFailureAndSwitch decides with
DecisionStatus(m) == SwitchCorrectedDetails(parseAndCorrectErrorDetails(m)).status

ImmediateStatus(m) == DecisionStatus(m) \in config.immediateSwitchStatusCodes

(* C11: a failed attempt whose corrected status is an immediate-switch     *)
(* code calls _switchToNextAuth on that attempt, whatever failureCount and *)
(* failureThreshold are, and leaves failureCount as it was.                *)
C11_ImmediateSwitch ==
  [][ \A r \in ReqIds :
        (FailedAttempt(r) /\ ImmediateStatus(req[r].p.msg)) =>
          /\ req'[r].switchCalls = req[r].switchCalls + 1
          /\ failureCount' = failureCount
          /\ ~isAuthSwitching => (isAuthSwitching' /\ sw'[r].phase # "none") ]_vars

\* an immediate switch was started with the counter below the threshold
C11_Witness ==
  \E r \in ReqIds :
    /\ req[r].switchCalls = 1 /\ req[r].pc = "await_switch"
    /\ ImmediateStatus(req[r].last)
    /\ failureCount = 1 /\ config.failureThreshold = 2

(* C12: with failureThreshold > 0 a failed attempt with a status that is   *)
(* no immediate-switch code calls _switchToNextAuth exactly when the       *)
(* incremented failureCount has reached failureThreshold; with             *)
(* failureThreshold = 0 such a failure never calls it.                     *)
C12_CounterSwitch ==
  [][ \A r \in ReqIds :
        (FailedAttempt(r) /\ ~ImmediateStatus(req[r].p.msg)) =>
          /\ req'[r].switchCalls \in {req[r].switchCalls, req[r].switchCalls + 1}
          /\ (req'[r].switchCalls = req[r].switchCalls + 1) <=>
               (config.failureThreshold > 0
                  /\ failureCount + 1 >= config.failureThreshold) ]_vars

\* the first failure stayed below the threshold, the second reached it
C12_Witness ==
  \E r \in ReqIds :
    /\ req[r].attempt = 2 /\ req[r].switchCalls = 1 /\ req[r].pc = "await_switch"
    /\ ~ImmediateStatus(req[r].last)
    /\ failureCount = 2 /\ config.failureThreshold = 2

(* C13: every failed attempt with a status that is no immediate-switch     *)
(* code increments failureCount by exactly one, for every failureThreshold *)
(* including 0.                                                            *)
C13_EveryFailureCounted ==
  [][ \A r \in ReqIds :
        (FailedAttempt(r) /\ ~ImmediateStatus(req[r].p.msg)) =>
          failureCount' = failureCount + 1 ]_vars

\* request r leaves the retry loop with a first frame that is no error
SucceededAttempt(r) ==
  /\ req[r].pc = "await_first" /\ req[r].p.k = "msg" /\ req'[r].pc # "await_first"
  /\ req[r].p.msg.event_type # "error"

(* C14: whenever a request leaves the retry loop with a non-error first    *)
(* frame, failureCount is 0 right afterwards, whatever it was before, in   *)
(* both streaming modes.                                                   *)
C14_SuccessResets ==
  [][ \A r \in ReqIds : SucceededAttempt(r) => failureCount' = 0 ]_vars

\* a retry succeeded after a counted failure, and the counter is back at 0
C14_Witness ==
  \E r \in ReqIds :
    /\ req[r].attempt = 2 /\ req[r].pc \in {"await_chunk", "await_data"}
    /\ req[r].switchCalls = 0 /\ ~ImmediateStatus(taken[r][1])
    /\ config.failureThreshold = 2 /\ failureCount = 0

\* the members of a list, and the cyclic successor of c among them
Members(S) == { S[i] : i \in 1..Len(S) }

Least(X) == CHOOSE x \in X : \A y \in X : x <= y

CyclicSuccessor(S, c) ==
  LET above == { x \in Members(S) : x > c }
  IN IF above = {} THEN Least(Members(S)) ELSE Least(above)

(* C15: for a non-empty sorted list S of available indices and a current   *)
(* index c, _getNextAuthIndex returns a member of S: the cyclic successor  *)
(* of c when c is in S and S has several members, the first element when   *)
(* c is not in S, the only element when S has one; and that is the index   *)
(* a rotation is started for.                                              *)
C15_NextIndex ==
  LET S == availableIndices
      c == currentAuthIndex
      n == getNextAuthIndex
  IN /\ n \in Members(S)
     /\ Len(S) = 1 => n = S[1]
     /\ c \notin Members(S) => n = S[1]
     /\ (c \in Members(S) /\ Len(S) > 1) => (n = CyclicSuccessor(S, c) /\ n # c)
     /\ \A k \in Callers : sw[k].phase # "none" => sw[k].target = n

\* a rotation from the last index of a three-element list is pending: it wraps
C15_Witness ==
  /\ Len(availableIndices) = 3
  /\ currentAuthIndex = availableIndices[3]
  /\ sw[AdminCaller].phase # "none"
  /\ sw[AdminCaller].target = availableIndices[1]

\* the pending switchAccount of caller c returns in this step
SwitchReturns(c) == sw[c].phase = "launching" /\ sw'[c].phase = "none"

(* C16: a rotation deactivates the current peer before it activates the    *)
(* selected index (no browser runs while launchBrowser is pending); when   *)
(* the activation succeeds, currentAuthIndex is the selected index,        *)
(* failureCount is 0 and the guard is free as the call returns; and        *)
(* currentAuthIndex changes in no other step.                              *)
C16_SuccessfulRotation ==
  [][ /\ \A c \in Callers :
           /\ sw'[c].phase = "launching" => (~browser' /\ pageConn' = 0)
           /\ (SwitchReturns(c) /\ browser') =>
                /\ currentAuthIndex' = sw[c].target
                /\ currentAuthIndex' = NextIndexOf(availableIndices, currentAuthIndex)
                /\ failureCount' = 0
                /\ ~isAuthSwitching'
      /\ currentAuthIndex' # currentAuthIndex =>
           \E c \in Callers : SwitchReturns(c) /\ browser' ]_vars

\* a rotation triggered by the counter succeeded: new index, counter back at 0
C16_Witness ==
  \E r \in ReqIds :
    /\ req[r].switchCalls = 1 /\ ~req[r].switchFailed /\ ~req[r].switchSkipped
    /\ sw[r].phase = "none" /\ req[r].pc \in {"retry_wait", "done"}
    /\ ~ImmediateStatus(req[r].last) /\ config.failureThreshold = 1
    /\ currentAuthIndex = availableIndices[2] /\ browser /\ failureCount = 0

Waiting(r) == req[r].pc \in {"await_first", "await_chunk", "await_data", "await_end"}

\* the close event of a registered connection is handled in this step
ConnectionCloses == Len(connections') < Len(connections)

Body(rs) ==
  LET b == SelectSeq(rs.out, LAMBDA o : o.kind = "body")
  IN [i \in 1..Len(b) |-> b[i].data]

\* fs is a success header frame, chunk frames and the end marker
IsStream(fs) ==
  /\ Len(fs) >= 2
  /\ fs[1].event_type = "response_headers"
  /\ fs[Len(fs)] = STREAM_END
  /\ \A i \in 2..(Len(fs) - 1) : fs[i].event_type = "chunk"

\* the payloads d1 ... dn of the stream fs
Pieces(fs) == [i \in 1..(Len(fs) - 2) |-> fs[i + 1].data]

\* request r has taken the end marker from its mailbox and handles it
AtEndMarker(r) == req[r].pc = "await_chunk" /\ req[r].p = Resolved(STREAM_END)

(* C18: real streaming relays the chunks in order and ends at the end      *)
(* marker.  When the frames routed to a request were a success header,     *)
(* chunk(d1) ... chunk(dn) and stream_close and the request has read them  *)
(* all, the client received exactly d1 ... dn in that order and nothing    *)
(* else, and the response is ended; the step that handles the end marker   *)
(* writes nothing and ends the response; an ended response never changes.  *)
C18_StreamRelay ==
  /\ [](\A r \in ReqIds :
          ( /\ req[r].mode = "real" /\ req[r].pc = "done"
            /\ IsStream(routed[r]) /\ taken[r] = routed[r] ) =>
              /\ Body(res[r]) = Pieces(routed[r])
              /\ Len(res[r].out) = Len(Pieces(routed[r]))
              /\ res[r].ended)
  /\ [][ \A r \in ReqIds :
           /\ (AtEndMarker(r) /\ req'[r].p # req[r].p) =>
                /\ req'[r].pc = "done"
                /\ res'[r].ended /\ ~res[r].ended
                /\ res'[r].out = res[r].out
           /\ res[r].ended => res'[r] = res[r] ]_vars

\* a reply of two different pieces was relayed to its end
C18_Witness ==
  \E r \in ReqIds :
    /\ req[r].mode = "real" /\ req[r].pc = "done"
    /\ IsStream(routed[r]) /\ taken[r] = routed[r]
    /\ Body(res[r]) = <<"A", "B">> /\ res[r].ended

\* request r has taken an error frame from its mailbox while reading chunks
AtErrorFrame(r) ==
  /\ req[r].pc = "await_chunk" /\ req[r].p.k = "msg"
  /\ req[r].p.msg.event_type = "error"

(* C19: in real-streaming mode an error frame after the success header is  *)
(* terminal: the step of the chunk loop that handles an error frame stops  *)
(* reading and ends the client response.                                   *)
C19_ErrorEndsStream ==
  [][ \A r \in ReqIds :
        (AtErrorFrame(r) /\ req'[r].p # req[r].p) =>
          (req'[r].pc = "done" /\ res'[r].ended) ]_vars

\* the dequeue of request r that timed out was the one at position pc
TimedOutAt(r, pc) == req[r].pc = "done" /\ req[r].timedOutAt = pc

LastOut(rs) == rs.out[Len(rs.out)]

\* the client of response rs was told of the error e
ErrorReported(rs, e) ==
  /\ rs.out # <<>>
  /\ LastOut(rs).kind \in {"http_error", "sse_error"}
  /\ LastOut(rs).info = e
  /\ LastOut(rs).kind = "http_error" => (LastOut(rs).status = 500 /\ rs.statusCode = 500)

(* C20: timeout classification.  A request whose dequeue timed out in the  *)
(* chunk loop of real-streaming mode ends with a normally ended response   *)
(* that carries body chunks only; a request whose dequeue timed out at any *)
(* other wait (first frame in either mode, data or end frame in            *)
(* synthesized mode) ends with the timeout reported to the client as its   *)
(* last output; and a timed-out dequeue is handled by ending the request.  *)
C20_TimeoutClassification ==
  /\ [](\A r \in ReqIds :
          /\ TimedOutAt(r, "await_chunk") =>
               /\ req[r].mode = "real" /\ res[r].ended /\ res[r].statusCode = 200
               /\ \A i \in 1..Len(res[r].out) : res[r].out[i].kind = "body"
          /\ (\E pc \in {"await_first", "await_data", "await_end"} : TimedOutAt(r, pc)) =>
               /\ res[r].ended
               /\ ErrorReported(res[r], "Queue timeout"))
  /\ [][ \A r \in ReqIds :
           (req[r].p = Rejected("Queue timeout") /\ req'[r].p # req[r].p) =>
             (req'[r].pc = "done" /\ req'[r].timedOutAt = req[r].pc) ]_vars

\* a real stream that ended at a chunk timeout after relaying a chunk
C20_Witness ==
  \E r \in ReqIds :
    /\ TimedOutAt(r, "await_chunk") /\ res[r].ended
    /\ Len(res[r].out) = 1 /\ res[r].out[1].kind = "body"

\* a synthesized-mode request that reported the timeout of its end frame
C20_WitnessError ==
  \E r \in ReqIds :
    /\ TimedOutAt(r, "await_end") /\ ErrorReported(res[r], "Queue timeout")

\* the kinds of the outputs written to response rs, in the order written
Kinds(rs) == [i \in 1..Len(rs.out) |-> rs.out[i].kind]

\* fs is a successful single-shot reply: header, one chunk, end marker
IsSingleShot(fs) == IsStream(fs) /\ Len(fs) = 3 /\ fs[2].data # ""

\* request r has read a single-shot reply to its end in synthesized mode
SingleShotDone(r) ==
  /\ req[r].mode = "fake" /\ req[r].pc = "done"
  /\ IsSingleShot(routed[r]) /\ taken[r] = routed[r]

(* C21: synthesized streaming of a stream-marked path.  After a successful *)
(* single-shot reply (header, chunk d, stream_close) the client stream     *)
(* holds exactly one data event, carrying d, directly followed by the      *)
(* [DONE] marker as the last output; whatever precedes them is keep-alive; *)
(* the response is ended, its keep-alive timer is cleared, and nothing is  *)
(* written once [DONE] was written.                                        *)
C21_SynthesizedStream ==
  /\ [](\A r \in ReqIds :
          (SingleShotDone(r) /\ req[r].isStream) =>
            LET n == Len(res[r].out) IN
            /\ n >= 2
            /\ res[r].out[n].kind = "sse_done"
            /\ res[r].out[n - 1].kind = "sse_data"
            /\ res[r].out[n - 1].data = routed[r][2].data
            /\ \A i \in 1..(n - 2) : res[r].out[i].kind = "keepalive"
            /\ res[r].ended /\ res[r].statusCode = 200
            /\ ~req[r].keepAlive)
  /\ [][ \A r \in ReqIds :
           (res[r].out # <<>> /\ LastOut(res[r]).kind = "sse_done") =>
             res'[r] = res[r] ]_vars

\* a keep-alive, then the data event and the [DONE] marker
C21_Witness ==
  \E r \in ReqIds :
    /\ SingleShotDone(r) /\ req[r].isStream
    /\ Kinds(res[r]) = <<"keepalive", "sse_data", "sse_done">>

\* the positions of the in-band error events in the output of request r
ErrorEvents(r) == { i \in 1..Len(res[r].out) : res[r].out[i].kind = "sse_error" }

(* C22 as claimed: in synthesized mode on a stream-marked path, a request  *)
(* all of whose maxRetries attempts were answered by an error frame has    *)
(* exactly one in-band error event in its stream when the response ends.   *)
C22_OneErrorEvent ==
  \A r \in ReqIds :
    (AllAttemptsFailed(r) /\ HasRes(req[r])) =>
      (res[r].ended /\ Cardinality(ErrorEvents(r)) = 1)

(* C22 amended: such a stream ends with exactly one terminal error event   *)
(* as its last output; before it the stream carries one in-band error      *)
(* event per failed attempt and two per rotation attempt (its start and    *)
(* its result), all of the same format.                                    *)
C22_TerminalErrorLast ==
  \A r \in ReqIds :
    (AllAttemptsFailed(r) /\ HasRes(req[r])) =>
      /\ res[r].ended
      /\ OutOfKind(r, "sse_error", "final_failed") = {Len(res[r].out)}
      /\ Cardinality(OutOfKind(r, "sse_error", "attempt_failed")) = config.maxRetries
      /\ Cardinality(ErrorEvents(r)) = config.maxRetries + 2 * req[r].switchCalls + 1

\* two failed attempts, one of which started a rotation
C22_Witness ==
  \E r \in ReqIds :
    /\ AllAttemptsFailed(r) /\ HasRes(req[r])
    /\ config.maxRetries = 2 /\ req[r].switchCalls = 1
    /\ Cardinality(ErrorEvents(r)) = 5

\* exactly one ordinary HTTP 200 JSON response built from payload d
OneJsonResponse(rs, d) ==
  /\ Kinds(rs) = <<"json">>
  /\ rs.out[1].data = d /\ rs.out[1].status = 200
  /\ rs.statusCode = 200 /\ rs.ended

\* request r runs in synthesized mode on a path without the stream marker
PlainSynth(r) == req[r].pc # "idle" /\ req[r].mode = "fake" /\ ~req[r].isStream

\* no keep-alive, data or [DONE] event was written and no timer is running
NoSseEvent(r) ==
  /\ \A i \in 1..Len(res[r].out) : res[r].out[i].kind \in {"json", "http_error"}
  /\ Len(res[r].out) <= 1
  /\ ~req[r].keepAlive

\* the payloads of the model that are JSON documents
IsJsonText(d) == d \in {"A"}

(* C23 as claimed: in synthesized mode on a path without the stream        *)
(* marker, every successful single-shot reply gives exactly one ordinary   *)
(* HTTP 200 JSON response built from the payload, and no SSE event is      *)
(* ever written.                                                           *)
C23_OneJsonResponse ==
  \A r \in ReqIds :
    /\ PlainSynth(r) => NoSseEvent(r)
    /\ (SingleShotDone(r) /\ ~req[r].isStream) =>
         OneJsonResponse(res[r], routed[r][2].data)

(* C23 amended: the 200 JSON response is given when the payload parses as  *)
(* JSON; a payload that does not parse gives one HTTP 500 error response;  *)
(* in either case no SSE event is ever written.                            *)
C23_JsonWhenParsable ==
  \A r \in ReqIds :
    /\ PlainSynth(r) => NoSseEvent(r)
    /\ (SingleShotDone(r) /\ ~req[r].isStream) =>
         IF IsJsonText(routed[r][2].data)
         THEN OneJsonResponse(res[r], routed[r][2].data)
         ELSE /\ Kinds(res[r]) = <<"http_error">>
              /\ res[r].out[1].status = 500 /\ res[r].out[1].info = "bad_json"
              /\ res[r].statusCode = 500 /\ res[r].ended

\* a parsable payload was answered with the JSON response
C23_Witness ==
  \E r \in ReqIds :
    /\ SingleShotDone(r) /\ ~req[r].isStream
    /\ routed[r][2].data = "A" /\ OneJsonResponse(res[r], "A")

\* processRequest is called for request r in this step
Arrives(r) == req[r].pc = "idle" /\ req'[r].pc # "idle"

\* request r was turned away for want of a peer
Rejected503(r) ==
  /\ req[r].pc = "done" /\ req[r].attempt = 0
  /\ Kinds(res[r]) = <<"http_error">>
  /\ res[r].out[1].status = 503 /\ res[r].statusCode = 503 /\ res[r].ended

(* C24: no peer means immediate rejection.  A request that arrives while   *)
(* no connection is registered is answered with HTTP 503 in the same step; *)
(* the step creates no mailbox, sends no relay frame and leaves            *)
(* failureCount, the rotation guard, the pending rotations and the browser *)
(* as they are; and the request stays rejected: it never gets a mailbox, a *)
(* relay frame, a retry or a rotation attempt.                             *)
C24_NoPeerRejected ==
  /\ [][ \A r \in ReqIds :
           (Arrives(r) /\ connections = <<>>) =>
             /\ Rejected503(r)'
             /\ UNCHANGED <<messageQueues, queue, relayed, routed, taken, peer>>
             /\ UNCHANGED <<failureCount, isAuthSwitching, sw, browser,
                            currentAuthIndex>> ]_vars
  /\ [](\A r \in ReqIds :
          (req[r].pc = "done" /\ req[r].attempt = 0) =>
            /\ Rejected503(r)
            /\ r \notin messageQueues /\ queue[r] = NewQueue
            /\ relayed[r] = <<>> /\ req[r].switchCalls = 0)

\* a request turned away while a rotation of another request is pending
C24_Witness ==
  \E r \in ReqIds :
    /\ Rejected503(r) /\ relayed[r] = <<>>
    /\ isAuthSwitching /\ failureCount > 0

\* processRequest has returned for request r with a visible outcome
Terminated(r) ==
  /\ req[r].pc = "done"
  /\ res[r].ended /\ res[r].headersSent
  /\ r \notin messageQueues

(* C25: every request terminates with an HTTP-visible outcome.  Whenever   *)
(* processRequest has returned, the response is sent and ended and the     *)
(* request's mailbox is removed; and when timers fire and the awaited      *)
(* calls of a rotation return, every request processRequest was called for *)
(* gets there, whatever the peer does.                                     *)
C25_EveryRequestTerminates ==
  /\ [](\A r \in ReqIds : req[r].pc = "done" => Terminated(r))
  /\ \A r \in ReqIds : (req[r].pc # "idle") ~> Terminated(r)

\* a request ended by the timeout of a dequeue the peer never answered
C25_Witness ==
  \E r \in ReqIds :
    /\ Terminated(r) /\ req[r].timedOutAt = "await_first" /\ routed[r] = <<>>
    /\ ~req[r].peerLost

\* request a is suspended: parked in dequeue, in its retry delay, or
\* awaiting the activation call of a rotation
Suspended(a) ==
  \/ Waiting(a) /\ req[a].p.k = "pending"
  \/ req[a].pc = "retry_wait"
  \/ req[a].pc = "await_switch"

\* the next step of request b is possible whenever b itself is ready for it
StepPossible(b) ==
  /\ (req[b].pc = "await_first" /\ req[b].p.k # "pending") => ENABLED ResumeFirst(b)
  /\ (req[b].pc = "await_chunk" /\ req[b].p.k # "pending") => ENABLED ResumeChunk(b)
  /\ (req[b].pc = "await_data" /\ req[b].p.k # "pending") => ENABLED ResumeData(b)
  /\ (req[b].pc = "await_end" /\ req[b].p.k # "pending") => ENABLED ResumeEnd(b)
  /\ req[b].pc = "retry_wait" => ENABLED RetryTimer(b)
  /\ sw[b].phase = "closing" => ENABLED SwitchBrowserClosed(b)
  /\ sw[b].phase = "launching" => ENABLED SwitchLaunched(b)

(* C26: requests do not block each other.  A request a client sends is     *)
(* taken up whatever the other requests are doing; a request whose awaited *)
(* promise has settled, whose retry delay runs or whose rotation call is   *)
(* pending can always take its next step, whatever state the other         *)
(* requests are in; and the step that advances one request changes neither *)
(* the task, the mailbox nor the response of any other request.            *)
C26_NoMutualBlocking ==
  /\ []((clients > 0 /\ nextReq <= MaxRequests) =>
          ENABLED (\E b \in BOOLEAN : processRequest(b)))
  /\ [](\A b \in ReqIds : StepPossible(b))
  /\ [][ \A b \in ReqIds :
           req'[b].pc # req[b].pc =>
             \A a \in ReqIds \ {b} :
               req'[a] = req[a] /\ queue'[a] = queue[a] /\ res'[a] = res[a] ]_vars

\* one request is still parked in its first dequeue, never answered, while
\* the request sent after it was forwarded and has ended with a relayed reply
C26_Witness ==
  \E a \in ReqIds : \E b \in ReqIds \ {a} :
    /\ a < b
    /\ req[a].pc = "await_first" /\ req[a].p.k = "pending" /\ taken[a] = <<>>
    /\ req[a].attempt = 1
    /\ req[b].pc = "done" /\ Len(relayed[b]) = 1 /\ Len(taken[b]) >= 2
    /\ res[b].ended /\ ~req[b].peerLost

\* the mailbox under test, before and after the step
Mailbox == queue[TestQueue]
MailboxAfter == queue'[TestQueue]

\* the step is an enqueue the open mailbox accepted
Enqueued == routed'[TestQueue] # routed[TestQueue]

\* the step changes the promise task w holds
PromiseChanges(w) == req'[w].p # req[w].p

(* C27: mailbox delivery is FIFO and never blocks the writer.  An enqueue  *)
(* on an open mailbox resolves the oldest parked dequeue with the frame if *)
(* one is parked, and appends the frame to the backlog otherwise; a        *)
(* dequeue with a non-empty backlog is resolved at once with the oldest    *)
(* backlog frame; enqueue is possible in every state; and under every      *)
(* interleaving of enqueue, dequeue, timer and close the frames returned   *)
(* are, in the order returned, a prefix of the frames accepted, the rest   *)
(* being the backlog while the mailbox is open.                            *)
C27_FifoDelivery ==
  /\ [][ Enqueued =>
           LET m == routed'[TestQueue][Len(routed'[TestQueue])] IN
           /\ routed'[TestQueue] = Append(routed[TestQueue], m)
           /\ IF Mailbox.waitingResolvers # <<>>
              THEN /\ req'[Head(Mailbox.waitingResolvers)].p = Resolved(m)
                   /\ MailboxAfter.waitingResolvers = Tail(Mailbox.waitingResolvers)
                   /\ MailboxAfter.messages = Mailbox.messages
                   /\ \A w \in ReqIds \ {Head(Mailbox.waitingResolvers)} : ~PromiseChanges(w)
              ELSE /\ MailboxAfter.messages = Append(Mailbox.messages, m)
                   /\ \A w \in ReqIds : ~PromiseChanges(w) ]_vars
  /\ [][ \A w \in ReqIds :
           (Mailbox.messages # <<>> /\ ~Mailbox.closed /\ PromiseChanges(w)) =>
             /\ req'[w].p = Resolved(Head(Mailbox.messages))
             /\ MailboxAfter.messages = Tail(Mailbox.messages)
             /\ MailboxAfter.waitingResolvers = <<>> ]_vars
  /\ [](frames < MaxFrames => \A m \in QueueMessages : ENABLED EnqueueCall(m))
  /\ [](/\ IsPrefix(taken[TestQueue], routed[TestQueue])
        /\ ~Mailbox.closed =>
             routed[TestQueue] = taken[TestQueue] \o Mailbox.messages
        /\ ~(Mailbox.messages # <<>> /\ Mailbox.waitingResolvers # <<>>))

\* three different frames came back in the order accepted, the second one
\* from the backlog while the other task was parked before
C27_Witness ==
  /\ Len(routed[TestQueue]) = 3 /\ taken[TestQueue] = routed[TestQueue]
  /\ routed[TestQueue][1] # routed[TestQueue][2]
  /\ routed[TestQueue][2] # routed[TestQueue][3]
  /\ routed[TestQueue][1] # routed[TestQueue][3]
  /\ \A w \in ReqIds : req[w].p.k = "msg"

\* the two errors that tell a caller the mailbox is closed
ClosedErrors == {"Queue closed", "Queue is closed"}

(* C28: closing a mailbox is permanent and total.  The close step rejects  *)
(* every parked dequeue with a closed error, leaves the other promises     *)
(* alone and empties backlog and waiter list; from then on the mailbox     *)
(* object never changes again (closed stays true, nothing is stored,       *)
(* nobody is parked), an enqueue has no effect at all, and a dequeue is    *)
(* rejected at once with a closed error.                                   *)
C28_ClosePermanent ==
  /\ [][ (~Mailbox.closed /\ MailboxAfter.closed) =>
           /\ MailboxAfter.messages = <<>> /\ MailboxAfter.waitingResolvers = <<>>
           /\ \A w \in ReqIds :
                IF InSeq(w, Mailbox.waitingResolvers)
                THEN req'[w].p = Rejected("Queue closed")
                ELSE ~PromiseChanges(w) ]_vars
  /\ [][ Mailbox.closed =>
           /\ MailboxAfter = Mailbox
           /\ UNCHANGED <<routed, taken>>
           /\ frames' # frames => UNCHANGED req
           /\ \A w \in ReqIds :
                PromiseChanges(w) => req'[w].p = Rejected("Queue is closed") ]_vars
  /\ [](Mailbox.closed =>
          /\ Mailbox.messages = <<>> /\ Mailbox.waitingResolvers = <<>>
          /\ \A w \in ReqIds : Dequeue(Mailbox, w).p.err \in ClosedErrors
          /\ \A m \in QueueMessages : Enqueue(Mailbox, m).q = Mailbox)

\* close rejected a parked dequeue, a later dequeue was rejected at once,
\* and an enqueue after the close was dropped
C28_Witness ==
  /\ Mailbox.closed /\ routed[TestQueue] # <<>>
  /\ frames > Len(routed[TestQueue])
  /\ \E w \in ReqIds : \E v \in ReqIds :
       /\ req[w].p = Rejected("Queue closed")
       /\ req[v].p = Rejected("Queue is closed")

\* task w is parked in a dequeue on the mailbox
Parked(w) == InSeq(w, Mailbox.waitingResolvers)

TimedOut(w) == req[w].p = Rejected("Queue timeout")

(* C29: dequeue timeout.  A parked dequeue is pending on an open mailbox   *)
(* and completes with the first of: a frame that is enqueued, its timer,   *)
(* close.  The timer rejects it with the timeout error, which is not a     *)
(* closed error, removes its waiter and changes nothing else.  After that  *)
(* an enqueue never reaches the timed-out call: the frame goes to the      *)
(* backlog or to another parked waiter, and the task's next dequeue        *)
(* returns the oldest backlog frame, so no accepted frame is lost.         *)
C29_DequeueTimeout ==
  /\ "Queue timeout" \notin ClosedErrors
  /\ [](\A w \in ReqIds : Parked(w) => (req[w].p.k = "pending" /\ ~Mailbox.closed))
  /\ [][ \A w \in ReqIds :
           (Parked(w) /\ PromiseChanges(w)) =>
             /\ ~Parked(w)'
             /\ \/ Enqueued /\ req'[w].p = Resolved(routed'[TestQueue][Len(routed'[TestQueue])])
                \/ TimedOut(w)'
                \/ req'[w].p = Rejected("Queue closed") /\ MailboxAfter.closed ]_vars
  /\ [][ \A w \in ReqIds :
           (~TimedOut(w) /\ TimedOut(w)') =>
             /\ Parked(w)
             /\ MailboxAfter = [Mailbox EXCEPT !.waitingResolvers = Without(@, w)]
             /\ UNCHANGED <<routed, taken>>
             /\ \A v \in ReqIds \ {w} : ~PromiseChanges(v) ]_vars
  /\ [][ \A w \in ReqIds :
           (TimedOut(w) /\ PromiseChanges(w)) =>
             /\ ~Enqueued
             /\ IF Mailbox.closed THEN req'[w].p = Rejected("Queue is closed")
                ELSE IF Mailbox.messages # <<>>
                THEN req'[w].p = Resolved(Head(Mailbox.messages))
                ELSE req'[w].p = Pending /\ Parked(w)' ]_vars
  /\ [](~Mailbox.closed => routed[TestQueue] = taken[TestQueue] \o Mailbox.messages)

\* a dequeue timed out, and the frame enqueued afterwards waits in the backlog
C29_Witness ==
  \E w \in ReqIds :
    /\ TimedOut(w) /\ ~Mailbox.closed
    /\ Len(Mailbox.messages) = 1 /\ taken[TestQueue] = <<>>
    /\ Mailbox.waitingResolvers = <<>>

\* the text d cannot be routed: not JSON, no request_id, or no mailbox
\* registered under its request_id
Unroutable(d) ==
  \/ ~d.valid
  \/ d.frame.request_id = 0
  \/ d.frame.request_id \notin messageQueues

(* C30: unroutable frames are dropped without effect.  The handling of a   *)
(* text that is not JSON, has no request_id or names an id without a       *)
(* registered mailbox changes nothing at all; a frame the page sends for a *)
(* request whose mailbox is gone changes no mailbox, no request, no        *)
(* response and no rotation state; and the handler completes for every     *)
(* such text whenever a connection is registered.                          *)
C30_UnroutableDropped ==
  /\ [][ \A d \in InboundTexts :
           (Unroutable(d) /\ InboundData(d)) => UNCHANGED vars ]_vars
  /\ [][ \A r \in ReqIds : \A f \in StreamFrames(r) :
           (r \notin messageQueues /\ PeerStreams(r, f)) =>
             UNCHANGED <<registryVars, authVars, reqVars, res, browserVars,
                         frames, routed>> ]_vars
  /\ [](connections # <<>> =>
          \A d \in InboundTexts : Unroutable(d) => ENABLED InboundData(d))

\* the page is still sending the reply of a request that has already ended
\* and whose mailbox is removed: its next frame is a late frame
C30_Witness ==
  \E r \in ReqIds :
    /\ req[r].pc = "done" /\ r \notin messageQueues
    /\ peer[r] = "body" /\ pageConn # 0 /\ connections # <<>>
    /\ frames < MaxStreamFrames

\* the number of relay frames sent for request r so far
RelayCount(r) == Len(relayed[r])

\* the first frame of attempt k of request r: every earlier attempt was
\* left after its first frame, so it is the k-th frame the mailbox returned
FirstFrame(r, k) == taken[r][k]

\* the first frame of r's latest attempt has arrived and is no error in 400-599
AttemptAccepted(r) ==
  /\ RelayCount(r) > 0 /\ Len(taken[r]) >= RelayCount(r)
  /\ ~IsRangeError(FirstFrame(r, RelayCount(r)))

(* C31: retry loop shape.  At most maxRetries relay frames are sent for a  *)
(* request; a relay frame after the first is sent only when the first      *)
(* frame of every earlier attempt was an error with status in 400-599;     *)
(* the step that sends a relay frame of request r is a step of r's task    *)
(* and starts the page's work for correlation id r alone; and once the     *)
(* first frame of an attempt is not such an error, no further relay frame  *)
(* is sent for the request.                                                *)
C31_RetryLoopShape ==
  /\ [](\A r \in ReqIds :
          /\ RelayCount(r) <= config.maxRetries
          /\ \A k \in 1..(RelayCount(r) - 1) :
               Len(taken[r]) >= k /\ IsRangeError(FirstFrame(r, k)))
  /\ [][ \A r \in ReqIds :
           relayed'[r] # relayed[r] =>
             /\ RelayCount(r)' = RelayCount(r) + 1
             /\ req'[r].attempt = RelayCount(r)'
             /\ \A k \in ReqIds \ {r} :
                  peer'[k] = peer[k] /\ relayed'[k] = relayed[k] ]_vars
  /\ [][ \A r \in ReqIds :
           AttemptAccepted(r) => relayed'[r] = relayed[r] ]_vars

\* a request whose first attempt failed and whose last permitted attempt
\* was answered with response headers
C31_Witness ==
  \E r \in ReqIds :
    /\ config.maxRetries > 1 /\ RelayCount(r) = config.maxRetries
    /\ IsRangeError(FirstFrame(r, 1))
    /\ AttemptAccepted(r)
    /\ FirstFrame(r, RelayCount(r)).event_type = "response_headers"

\* request r started a rotation that completed successfully, and nothing
\* else disturbed the relay: no GET /switch was served and the page never
\* dropped its connection on its own.  r waits for its retry delay.
RetriesAfterOwnRotation(r) ==
  /\ req[r].pc = "retry_wait"
  /\ req[r].switchCalls > 0 /\ ~req[r].switchFailed /\ ~req[r].switchSkipped
  /\ ~req[r].peerLost /\ adminSwitches = 0

(* C32: a request's mailbox survives a rotation the request triggered: when *)
(* a failed attempt before the last one has started a rotation and the     *)
(* rotation has completed, the request's mailbox is still registered and   *)
(* open for the frames of the next attempt.                                *)
C32_MailboxSurvivesRotation ==
  \A r \in ReqIds :
    RetriesAfterOwnRotation(r) => (r \in messageQueues /\ ~queue[r].closed)

\* the step is the close event of the registered connection x
ClosesConnection(x) == InSeq(x, connections) /\ ~InSeq(x, connections')

\* the connection the latest relay frame of request r was sent to
LastTarget(r) == relayed[r][Len(relayed[r])]

(* C33: the close event of any registered connection closes every live     *)
(* mailbox and empties the registry, whichever connection the requests     *)
(* were forwarded to: also when another connection stays registered and    *)
(* is the one relay frames are sent to.  Every parked dequeue is rejected  *)
(* with the closed error.                                                  *)
C33_AnyCloseClosesAll ==
  [][ \A x \in 1..MaxConns :
        ClosesConnection(x) =>
          /\ messageQueues' = {}
          /\ \A r \in messageQueues :
               /\ queue'[r].closed /\ queue'[r].messages = <<>>
               /\ queue'[r].waitingResolvers = <<>>
               /\ InSeq(r, queue[r].waitingResolvers) =>
                    req'[r].p = Rejected("Queue closed") ]_vars

\* a request forwarded once, to the connection that is still registered,
\* whose parked dequeue was rejected by the close event of the other one
C33_Witness ==
  \E r \in ReqIds :
    /\ connections # <<>> /\ relayed[r] = <<Head(connections)>>
    /\ req[r].pc = "await_first" /\ req[r].p = Rejected("Queue closed")
    /\ queue[r].closed /\ r \notin messageQueues

\* o is a result of a completed reply: a data or [DONE] event, the JSON
\* response, or the error response for a missing or unparsable payload
IsResult(o) ==
  \/ o.kind \in {"sse_data", "sse_done", "json"}
  \/ o.kind = "http_error" /\ o.info \in {"bad_json", "no_data"}

\* the step writes a result to the response of request r
WritesResult(r) ==
  \E i \in (Len(res[r].out) + 1)..Len(res'[r].out) : IsResult(res'[r].out[i])

\* the page answered request r with headers and the end marker only
EmptyBodyReply(r) ==
  /\ req[r].mode = "fake" /\ Len(routed[r]) = 2
  /\ routed[r][1].event_type = "response_headers"
  /\ routed[r][2] = STREAM_END

\* the response of r is ended and its last output reports a failed dequeue
DequeueErrorOutcome(r) ==
  /\ res[r].ended /\ res[r].out # <<>>
  /\ LastOut(res[r]).kind \in {"http_error", "sse_error"}
  /\ LastOut(res[r]).info \in {"Queue timeout", "Queue closed", "Queue is closed"}

(* C34: in synthesized mode a result is written only by the step that      *)
(* resumes from the second dequeue after the first frame (data frame, then *)
(* end frame), both dequeues having returned a frame.  When the page sends *)
(* only the end marker after the headers, no result is ever written: the   *)
(* request parked in the second dequeue is resumed only by that dequeue's  *)
(* timeout or by the closing of its mailbox, and it ends with an error     *)
(* outcome.                                                                *)
C34_TwoDequeuesBeforeResult ==
  /\ [][ \A r \in ReqIds :
           (req[r].mode = "fake" /\ WritesResult(r)) =>
             /\ req[r].pc = "await_end" /\ req[r].p.k = "msg"
             /\ Len(taken[r]) = RelayCount(r) + 2 ]_vars
  /\ [](\A r \in ReqIds :
          EmptyBodyReply(r) =>
            /\ \A i \in 1..Len(res[r].out) : ~IsResult(res[r].out[i])
            /\ req[r].pc = "done" => DequeueErrorOutcome(r))
  /\ [][ \A r \in ReqIds :
           (EmptyBodyReply(r) /\ req[r].pc = "await_end" /\ req[r].p.k = "pending"
              /\ req'[r].p # req[r].p) =>
             req'[r].p \in {Rejected("Queue timeout"), Rejected("Queue closed")} ]_vars

\* the empty reply was read, the second dequeue timed out and the client
\* got the error
C34_Witness ==
  \E r \in ReqIds :
    /\ EmptyBodyReply(r) /\ taken[r] = routed[r]
    /\ TimedOutAt(r, "await_end") /\ DequeueErrorOutcome(r)

\* the first frame of r's attempt has arrived: an error frame whose status
\* is missing or outside 400-599
OddFirstFrame(r) ==
  /\ req[r].pc = "await_first" /\ req[r].p.k = "msg"
  /\ req[r].p.msg.event_type = "error" /\ ~InErrorRange(req[r].p.msg.status)

\* the request task of r takes up the settled dequeue in this step
TakesUp(r) == req'[r].p # req[r].p

\* the step that handles such a frame ends the request: no relay frame, no
\* change of the failure counter, no rotation
OddErrorEndsAttempts ==
  [][ \A r \in ReqIds :
        (OddFirstFrame(r) /\ TakesUp(r)) =>
          /\ req'[r].pc = "done" /\ res'[r].ended
          /\ relayed' = relayed /\ peer' = peer
          /\ failureCount' = failureCount
          /\ isAuthSwitching' = isAuthSwitching /\ sw' = sw
          /\ req'[r].switchCalls = req[r].switchCalls ]_vars

\* the client of response rs was given an error: an HTTP status of 400 or
\* more, or an in-band error event as the last thing written
ClientSeesError(rs) ==
  /\ rs.ended /\ rs.out # <<>>
  /\ \/ LastOut(rs).kind = "sse_error"
     \/ LastOut(rs).kind = "http_error" /\ rs.statusCode >= 400

(* C35: an error frame whose status is missing or outside 400-599, taken   *)
(* as the first frame of an attempt, ends the request as failed without    *)
(* any retry: no further relay frame, the failure counter neither          *)
(* incremented nor reset, no rotation, and the client receives an error    *)
(* outcome.                                                                *)
C35_OddErrorFails ==
  [][ \A r \in ReqIds :
        (OddFirstFrame(r) /\ TakesUp(r)) =>
          /\ req'[r].pc = "done"
          /\ relayed' = relayed
          /\ failureCount' = failureCount
          /\ isAuthSwitching' = isAuthSwitching /\ sw' = sw
          /\ ClientSeesError(res'[r]) ]_vars

\* the pending switchAccount of caller c ends in this step with a launch
\* that threw: the call is over and no browser runs
ActivationFails(c) ==
  sw[c].phase = "launching" /\ sw'[c].phase = "none" /\ ~browser'

\* caller c starts a switchAccount in this step
RotationStarts(c) == sw[c].phase = "none" /\ sw'[c].phase # "none"

(* C36: a rotation whose activation fails leaves currentAuthIndex and      *)
(* failureCount as they were, although the previous browser is closed and  *)
(* its page gone; the index does not change while a rotation is pending;   *)
(* every rotation targets the successor of the current index; so the       *)
(* successor selected after the failure is the index that just failed.     *)
C36_FailedRotationKeepsIndex ==
  /\ [][ \A c \in Callers :
           ActivationFails(c) =>
             /\ currentAuthIndex' = currentAuthIndex
             /\ failureCount' = failureCount
             /\ ~browser /\ pageConn' = 0
             /\ NextIndexOf(availableIndices', currentAuthIndex') = sw[c].target ]_vars
  /\ [][ (PendingSwitches # {} /\ PendingSwitches' # {}) =>
           currentAuthIndex' = currentAuthIndex ]_vars
  /\ [][ \A c \in Callers :
           RotationStarts(c) =>
             sw'[c].target = NextIndexOf(availableIndices, currentAuthIndex) ]_vars

\* the rotation a request started has failed, and the rotation started
\* next (by GET /switch) is pending with the same target, from the same
\* current index
C36_Witness ==
  \E r \in ReqIds :
    /\ req[r].switchFailed /\ req[r].switchCalls > 0
    /\ sw[AdminCaller].phase = "launching" /\ ~browser
    /\ currentAuthIndex = availableIndices[1]
    /\ sw[AdminCaller].target = availableIndices[2]

\* a rotation started by a request has failed to activate its target: no
\* browser runs and no rotation is pending
AfterFailedRotation ==
  /\ \E r \in ReqIds : req[r].switchFailed
  /\ ~browser /\ PendingSwitches = {}

\* another rotation is under way, or a page is connected
RotatingOrConnected == PendingSwitches # {} \/ pageConn # 0

\* no browser runs, no rotation is pending, and no request holds a frame
\* that arrived before the browser was closed
WithoutPeer ==
  /\ ~browser /\ PendingSwitches = {} /\ pageConn = 0
  /\ \A r \in ReqIds :
       /\ queue[r].messages = <<>>
       /\ ~(req[r].pc = "await_first" /\ req[r].p.k = "msg")

\* that state is left by no step of the server other than a rotate call,
\* whatever requests arrive, and no failure is recorded in it
StaysWithoutPeer ==
  [][ WithoutPeer => (WithoutPeer' /\ failureCount' = failureCount) ]_vars

(* C37: the system recovers from a failed rotation by itself: whenever a   *)
(* rotation has failed to activate its target, the requests that arrive    *)
(* afterwards eventually lead to another rotation attempt or to a          *)
(* connected page, without a manual rotate call.                           *)
C37_RecoversByItself ==
  []((AfterFailedRotation /\ clients > 0) => <>RotatingOrConnected)

\* the number of dequeue calls task w has made
Calls(w) == req[w].attempt

\* the call with resolver x is parked in the mailbox
ParkedCall(x) == InSeq(x, Mailbox.waitingResolvers)

\* a call of task w is given frame m in this step: a parked call is
\* resolved, or a new call returns it at once
Receives(w, m) ==
  /\ req'[w].p = Resolved(m)
  /\ PromiseChanges(w) \/ Calls(w)' # Calls(w)

(* C38: each dequeue call settles exactly once and each frame is consumed   *)
(* at most once.  The promise of a call changes once, from pending to a    *)
(* frame, the timeout error or a closed error, and then stays until the    *)
(* task calls dequeue again; a pending call is parked under its own        *)
(* resolver on an open mailbox; the timer of a call that is no longer      *)
(* parked (it got a frame, or was rejected) changes nothing, also while a  *)
(* later call of the same task is parked; a timed-out call is never        *)
(* resolved by an enqueue; every step returns at most one frame, to one    *)
(* call; and on an open mailbox the frames accepted are the frames         *)
(* returned followed by the backlog.                                       *)
C38_SettledOnce ==
  /\ [][ \A w \in ReqIds :
           PromiseChanges(w) =>
             IF Calls(w)' # Calls(w)
             THEN Calls(w)' = Calls(w) + 1 /\ (Calls(w) = 0 \/ req[w].p.k # "pending")
             ELSE /\ req[w].p = Pending /\ ParkedCall(Resolver(w, Calls(w)))
                  /\ req'[w].p.k # "pending"
                  /\ ~ParkedCall(Resolver(w, Calls(w)))' ]_vars
  /\ [](\A w \in ReqIds :
          (Calls(w) > 0 /\ req[w].p.k = "pending") <=>
            ParkedCall(Resolver(w, Calls(w))))
  /\ [](\A x \in Resolvers : ParkedCall(x) =>
          (~Mailbox.closed /\ CallOf(x) = Calls(TaskOf(x))))
  /\ [][ \A x \in Resolvers :
           (~ParkedCall(x) /\ ResolverTimer(x)) => UNCHANGED vars ]_vars
  /\ [][ \A w \in ReqIds :
           (TimedOut(w) /\ PromiseChanges(w)) =>
             (~Enqueued /\ Calls(w)' = Calls(w) + 1) ]_vars
  /\ [][ taken'[TestQueue] # taken[TestQueue] =>
           \E m \in QueueMessages :
             /\ taken'[TestQueue] = Append(taken[TestQueue], m)
             /\ Cardinality({ w \in ReqIds : Receives(w, m) }) = 1 ]_vars
  /\ [](~Mailbox.closed => routed[TestQueue] = taken[TestQueue] \o Mailbox.messages)

\* a task whose first call returned the only frame is parked in its second
\* call, and the timer step of the first call can still be taken
C38_Witness ==
  \E w \in ReqIds :
    /\ Calls(w) = 2 /\ ParkedCall(Resolver(w, 2))
    /\ Len(taken[TestQueue]) = 1 /\ routed[TestQueue] = taken[TestQueue]
    /\ \A v \in ReqIds \ {w} : Calls(v) = 0
    /\ ENABLED ResolverTimer(Resolver(w, 1))

\* the way the finished request r left its handler
ExitPath(r) ==
  IF req[r].timedOutAt # "" THEN "timeout"
  ELSE IF res[r].out # <<>> /\ LastOut(res[r]).info \in ClosedErrors THEN "closed"
  ELSE IF res[r].out # <<>> /\ LastOut(res[r]).info \in {"upstream", "final_failed"}
  THEN "terminal"
  ELSE IF res[r].out # <<>> /\ LastOut(res[r]).kind \in {"body", "sse_done", "json"}
  THEN "success"
  ELSE "other"

(* C39: no write after end.  The response of a request is ended exactly    *)
(* when its handler has returned, by whichever exit path; the handler's    *)
(* writes that are not guarded (body pieces, data and [DONE] events) are   *)
(* made by steps that start with the response not ended; once ended, the   *)
(* response never changes again; and a keep-alive interval runs only in    *)
(* synthesized mode on a stream-marked path while the handler is busy, so  *)
(* it is cleared on every exit path and writes nothing after the end.      *)
C39_NoWriteAfterEnd ==
  /\ [](\A r \in ReqIds :
          /\ res[r].ended <=> req[r].pc = "done"
          /\ req[r].keepAlive =>
               (InFlight(r) /\ req[r].mode = "fake" /\ req[r].isStream /\ ~res[r].ended))
  /\ [][ \A r \in ReqIds : res[r].ended => res'[r] = res[r] ]_vars
  /\ [][ \A r \in ReqIds :
           res'[r].out # res[r].out =>
             (~res[r].ended /\ IsPrefix(res[r].out, res'[r].out)) ]_vars

\* a request on a stream-marked path in synthesized mode left its handler
\* by a dequeue timeout before its keep-alive interval had fired: the
\* response is ended and the interval is cleared
C39_Witness ==
  \E r \in ReqIds :
    /\ req[r].pc = "done" /\ req[r].mode = "fake" /\ req[r].isStream
    /\ ExitPath(r) = "timeout" /\ req[r].ticks < MaxKeepAlive
    /\ res[r].ended /\ ~req[r].keepAlive

\* the handler that runs request r, as its position shows
InRealHandler(r) == req[r].pc = "await_chunk"
InSynthHandler(r) == req[r].pc \in {"await_data", "await_end"} \/ req[r].keepAlive

(* C40: the streaming mode of a request is fixed at its arrival.  The      *)
(* first relay frame, sent in the step in which processRequest starts,     *)
(* carries the global mode of that moment; every later relay frame of the  *)
(* request carries the same mode, and the handler that runs the request is *)
(* the one of that mode, whatever GET /admin/set-mode does to the global   *)
(* mode while the request is in flight.                                    *)
C40_ModeFixedAtArrival ==
  /\ [][ \A r \in ReqIds :
           (Arrives(r) /\ req'[r].pc # "done") =>
             relayModes'[r] = <<streamingMode>> ]_vars
  /\ [](\A r \in ReqIds :
          /\ Len(relayModes[r]) = RelayCount(r)
          /\ \A i \in 1..Len(relayModes[r]) : relayModes[r][i] = relayModes[r][1]
          /\ InRealHandler(r) => (relayModes[r] # <<>> /\ relayModes[r][1] = "real")
          /\ InSynthHandler(r) => (relayModes[r] # <<>> /\ relayModes[r][1] = "fake"))
  /\ [][ \A r \in ReqIds :
           relayModes[r] # <<>> => IsPrefix(relayModes[r], relayModes'[r]) ]_vars

\* a request that arrived in real mode sent its second relay frame and got
\* into the chunk loop after the global mode had been set to fake
C40_Witness ==
  \E r \in ReqIds :
    /\ relayModes[r] = <<"real", "real">> /\ streamingMode = "fake"
    /\ InRealHandler(r)

=============================================================================
